---- MODULE Spec2Model ----
(***************************************************************************)
(* Model of the lattehhpel driver (src/lattehhpel/hhpel.py): class HHPEL,  *)
(* a serial-port driver for a HOECHERL&HACKL ZS506 programmable electronic *)
(* load.                                                                   *)
(*                                                                         *)
(* Numbers.  Every physical quantity (Amperes, Ohms, Volts, seconds) is an *)
(* integer number of ticks, one tick being 10^-6 of the unit, so 1.2344 A  *)
(* is 1234400.  Values that come out of the response decoder are exact     *)
(* decimals [m, e] meaning m * 10^e.  The binary rounding of Python floats *)
(* is not modelled: arithmetic is exact decimal arithmetic.                *)
(*                                                                         *)
(* Text.  A response is a sequence of one-character strings.               *)
(***************************************************************************)
EXTENDS Integers, Sequences, FiniteSets, TLC

\* ------------------------------------------------------------------ bounds

\* Whole-Ampere amplitudes 1..MaxAmp are offered to the current operations.
MaxAmp == 1

\* ------------------------------------------------------------- text helpers

Digits == <<"0", "1", "2", "3", "4", "5", "6", "7", "8", "9">>

IsDigit(c) == \E i \in 1..10 : Digits[i] = c

DigitVal(c) == (CHOOSE i \in 1..10 : Digits[i] = c) - 1

IsSpace(c) == c \in {" ", "\n"}

\* Index of the first element of t equal to c, 0 when there is none (str.find + 1).
Find(t, c) ==
    IF \E i \in 1..Len(t) : t[i] = c
    THEN CHOOSE i \in 1..Len(t) : t[i] = c /\ \A j \in 1..(i - 1) : t[j] # c
    ELSE 0

\* str.replace(c, ''): every occurrence of c removed.
Remove(t, c) == SelectSeq(t, LAMBDA ch : ch # c)

\* str.split(sep): the list of the pieces of t between occurrences of sep.
RECURSIVE Split(_, _)
Split(t, sep) ==
    LET i == Find(t, sep)
    IN  IF i = 0 THEN <<t>>
        ELSE <<SubSeq(t, 1, i - 1)>> \o Split(SubSeq(t, i + 1, Len(t)), sep)

\* str.strip(): leading and trailing white space removed.
RECURSIVE Strip(_)
Strip(t) ==
    IF t = <<>> THEN t
    ELSE IF IsSpace(t[1]) THEN Strip(Tail(t))
    ELSE IF IsSpace(t[Len(t)]) THEN Strip(SubSeq(t, 1, Len(t) - 1))
    ELSE t

\* The number a run of digits denotes.
RECURSIVE DigitsVal(_)
DigitsVal(t) ==
    IF t = <<>> THEN 0 ELSE 10 * DigitsVal(SubSeq(t, 1, Len(t) - 1)) + DigitVal(t[Len(t)])

AllDigits(t) == \A i \in 1..Len(t) : IsDigit(t[i])

RECURSIVE Pow10(_)
Pow10(n) == IF n <= 0 THEN 1 ELSE 10 * Pow10(n - 1)

\* ------------------------------------------------------------ exact decimals

\* The decimal m * 10^e with trailing zeros of m moved into e; zero is [0, 0].
RECURSIVE Norm(_, _)
Norm(m, e) ==
    IF m = 0 THEN [m |-> 0, e |-> 0]
    ELSE IF m % 10 = 0 THEN Norm(m \div 10, e + 1)
    ELSE [m |-> m, e |-> e]

\* Ticks per unit: the model's numbers have a resolution of 10^-6.
Unit == Pow10(6)

\* A number of ticks as an exact decimal.
Dec(v) == Norm(v, -6)

\* float(str) of Python on the characters the model uses: white space is stripped
\* at both ends, then an optional sign, then digits with at most one decimal point
\* and at least one digit.  ok is FALSE where float() raises ValueError.
ParseDigits(sgn, ip, fp) ==
    IF AllDigits(ip) /\ AllDigits(fp) /\ Len(ip) + Len(fp) > 0
    THEN [ok |-> TRUE,
          val |-> Norm(sgn * (DigitsVal(ip) * Pow10(Len(fp)) + DigitsVal(fp)), -Len(fp))]
    ELSE [ok |-> FALSE, val |-> [m |-> 0, e |-> 0]]

ParseUnsigned(sgn, body, dot) ==
    ParseDigits(sgn,
                IF dot = 0 THEN body ELSE SubSeq(body, 1, dot - 1),
                IF dot = 0 THEN <<>> ELSE SubSeq(body, dot + 1, Len(body)))

ParseSigned(sgn, body) == ParseUnsigned(sgn, body, Find(body, "."))

ParseStripped(s) ==
    ParseSigned(IF s # <<>> /\ s[1] = "-" THEN -1 ELSE 1,
                IF s # <<>> /\ s[1] \in {"-", "+"} THEN Tail(s) ELSE s)

ParseFloat(t) == ParseStripped(Strip(t))

\* int(str) of Python: white space stripped, an optional sign, at least one digit.
ParseIntSigned(sgn, body) ==
    IF body # <<>> /\ AllDigits(body)
    THEN [ok |-> TRUE, val |-> sgn * DigitsVal(body)]
    ELSE [ok |-> FALSE, val |-> 0]

ParseIntStripped(s) ==
    ParseIntSigned(IF s # <<>> /\ s[1] = "-" THEN -1 ELSE 1,
                   IF s # <<>> /\ s[1] \in {"-", "+"} THEN Tail(s) ELSE s)

ParseInt(t) == ParseIntStripped(Strip(t))

\* base * pow(10, exp) for decimals base and exp, exp a whole number.
TimesPow10(base, exp) == Norm(base.m, base.e + exp.m * Pow10(exp.e))

\* '{0:.3f}'.format(v): v rounded to three decimal places (to a multiple of 1000
\* ticks).  A value exactly half way is rounded to the even neighbour; Python
\* rounds the binary value there, so the value sets below hold no such value.
Round3(q, r) == IF r > 500 \/ (r = 500 /\ q % 2 = 1) THEN (q + 1) * 1000 ELSE q * 1000

Format3(v) == Round3(v \div 1000, v % 1000)

Max(a, b) == IF a >= b THEN a ELSE b

\* ------------------------------------------------------------------- frames

\* A command text is a list of tokens (the query marker '?' and the separator ';'
\* are tokens of their own) and the numbers formatted into it, in order.
Frame(tokens, args) == [cmd |-> tokens, args |-> args]

Cmd(name) == Frame(<<name>>, <<>>)

CmdV(name, args) == Frame(<<name>>, args)

Query(name) == Frame(<<name, "?">>, <<>>)

\* command_string.find('?') != -1
HasQueryMark(frame) == Find(frame.cmd, "?") # 0

\* --------------------------------------------------------------- the device

\* The load as the driver sees it over the serial line: the registers the command
\* vocabulary programs, and the replies to the queries.
DevInit ==
    [inp |-> "OFF", mode |-> "CURR", rang |-> Unit, curr |-> 0, res |-> 0, prot |-> 0,
     exp_enab |-> "OFF"]

DevApply(d, frame) ==
    LET name == frame.cmd[1]
        a    == frame.args
    IN  IF HasQueryMark(frame) THEN d
        ELSE IF Len(frame.cmd) > 1
        THEN \* CURR:RANG <v>;:CURR <c>;MODE:CURR
             [d EXCEPT !.rang = a[1], !.curr = a[2], !.mode = "CURR"]
        ELSE CASE name = "*RST"              -> DevInit
               [] name = "INP ON"            -> [d EXCEPT !.inp = "ON"]
               [] name = "INP OFF"           -> [d EXCEPT !.inp = "OFF"]
               [] name = "MODE:CURR"         -> [d EXCEPT !.mode = "CURR"]
               [] name = "MODE:RES"          -> [d EXCEPT !.mode = "RES"]
               [] name = "MODE:VOLT"         -> [d EXCEPT !.mode = "VOLT"]
               [] name = "CURR:RANG"         -> [d EXCEPT !.rang = a[1]]
               [] name = "CURR"              -> [d EXCEPT !.curr = a[1]]
               [] name = "RES"               -> [d EXCEPT !.res = a[1]]
               [] name = "VOLT:PROT"         -> [d EXCEPT !.prot = a[1]]
               [] name = "SFUN:EXP:ENAB ON"  -> [d EXCEPT !.exp_enab = "ON"]
               [] name = "SFUN:EXP:ENAB OFF" -> [d EXCEPT !.exp_enab = "OFF"]
               [] OTHER                      -> d

\* Number of decimal digits of n > 0.
RECURSIVE NDigits(_)
NDigits(n) == IF n < 10 THEN 1 ELSE 1 + NDigits(n \div 10)

\* The device's numeric reply <mantissa>E<sign><exponent>: a mantissa d.ddd of four
\* significant digits (rounded half up) and a signed two-digit exponent,
\* as in 1.234E+00, 3.000E-01, 5.000E-02.
EncodeText(neg, m, eneg, ae) ==
    (IF neg THEN <<"-">> ELSE <<>>)
    \o <<Digits[(m \div 1000) + 1], ".", Digits[((m \div 100) % 10) + 1],
         Digits[((m \div 10) % 10) + 1], Digits[(m % 10) + 1]>>
    \o <<"E", IF eneg THEN "-" ELSE "+", Digits[(ae \div 10) + 1], Digits[(ae % 10) + 1]>>

EncodeParts(neg, m, e) == EncodeText(neg, m, e < 0, IF e < 0 THEN -e ELSE e)

\* m0: the first four digits of the magnitude, rounded; n: its number of digits.
EncodeRounded(neg, n, m0) ==
    IF m0 >= 10000 THEN EncodeParts(neg, m0 \div 10, n - 6) ELSE EncodeParts(neg, m0, n - 7)

EncodeDigits(neg, a, n) ==
    EncodeRounded(neg, n,
                  IF n > 4 THEN (a + 5 * Pow10(n - 5)) \div Pow10(n - 4) ELSE a * Pow10(4 - n))

EncodeAbs(neg, a) == IF a = 0 THEN EncodeParts(FALSE, 0, 0) ELSE EncodeDigits(neg, a, NDigits(a))

Encode(v) == EncodeAbs(v < 0, IF v < 0 THEN -v ELSE v)

IdnText == <<"H", "H", " ", "Z", "S", "5", "0", "6">>

\* The register a numeric query reads.
DevValue(d, name) ==
    CASE name = "CURR"      -> d.curr
      [] name = "RES"       -> d.res
      [] name = "VOLT:PROT" -> d.prot
      [] name = "MEAS:CURR" -> IF d.inp = "ON" THEN d.curr ELSE 0
      [] name = "MEAS:VOLT" -> 12 * Unit

\* The reply line the device puts on the wire for a query frame.
DevReplyTo(d, name) ==
    (CASE name = "*IDN" -> IdnText
       [] name = "INP"  -> IF d.inp = "ON" THEN <<"1">> ELSE <<"0">>
       [] name = "MODE" -> <<d.mode>>
       [] name \in {"CURR", "RES", "VOLT:PROT", "MEAS:CURR", "MEAS:VOLT"}
                        -> Encode(DevValue(d, name))
       [] OTHER         -> <<>>)
    \o <<"\n">>

DevReply(d, frame) == DevReplyTo(d, frame.cmd[1])

\* What reaches the input buffer when the line or the device misbehaves.
Garble(text, fault) ==
    CASE fault = "none"        -> text
      [] fault = "empty"       -> <<>>
      [] fault = "noE"         -> Remove(text, "E")
      [] fault = "badMantissa" -> <<"x">> \o text
      [] fault = "badExponent" -> text \o <<"x">>
      [] OTHER                 -> text

\* ------------------------------------------------------- execution contexts

\* Python values: None, a str (a text), a float (an exact decimal).
None == [t |-> "None"]

Str(s) == [t |-> "str", s |-> s]

Float(d) == [t |-> "float", v |-> d]

NoExc == [kind |-> "None", text |-> "", arg |-> <<>>]

\* The environment of one call: which transport call raises SerialException
\* (failAt = 0: none; otherwise the failAt-th send_command that reaches the
\* transport raises, in its write or in its read), how the reply is garbled, and
\* whether the reply arrives only after the settle delay has elapsed.
Env(failAt, failStage, fault, late) ==
    [failAt |-> failAt, failStage |-> failStage, fault |-> fault, late |-> late]

Calm == Env(0, "write", "none", FALSE)

\* An execution context x carries the object's fields, the device and the input
\* buffer, and what the call has done so far: the events (transport calls, sleeps,
\* log records) in order, the pending exception, the value returned.
Ok(x) == x.exc.kind = "None"

Event(x, e) == [x EXCEPT !.trace = Append(@, e)]

Log(x, level, text, arg) ==
    IF Ok(x) THEN Event(x, [ev |-> "log", level |-> level, text |-> text, arg |-> arg]) ELSE x

Raise(x, kind, text, arg) ==
    IF Ok(x) THEN [x EXCEPT !.exc = [kind |-> kind, text |-> text, arg |-> arg]] ELSE x

Return(x, value) == IF Ok(x) THEN [x EXCEPT !.ret = value] ELSE x

Sleep(x, ms) == IF Ok(x) THEN Event(x, [ev |-> "sleep", ms |-> ms]) ELSE x

\* except serial.SerialException: error_text = ...; logger.error(error_text);
\* raise RuntimeError(error_text)
ExceptSerial(x, text) ==
    IF x.exc.kind = "SerialException"
    THEN Raise(Log([x EXCEPT !.exc = NoExc], "error", text, <<>>), "RuntimeError", text, <<>>)
    ELSE x

\* ------------------------------------------------------------ class HHPEL

ClosedText == "Can not execute the command requested, connection with the programmable electronic load is closed"

\* The connection check left out.
_check_pel_connected_unchecked(x) == x

_check_pel_connected(x) ==
    IF ~Ok(x) THEN x
    ELSE IF ~x.is_connected
    THEN Raise(Log(x, "error", ClosedText, <<>>), "RuntimeError", ClosedText, <<>>)
    ELSE x

\* value is None or a str; TypeError is the only exception caught.
Parsed(x, value, p) ==
    IF p.ok THEN Return(x, Float(p.val))
    ELSE Raise(x, "ValueError", "could not convert string to float", value.s)

_convert_to_float(x, value, error_message) ==
    IF ~Ok(x) THEN x
    ELSE IF value.t = "None"
    THEN Raise(Log(x, "error", error_message, <<"None">>),
               "RuntimeError", error_message, <<"None">>)
    ELSE Parsed(x, value, ParseFloat(value.s))

\* The transport calls of send_command, after the connection check:
\* flushOutput, write, sleep, and for a query read(inWaiting()).
Reply(x, frame) ==
    IF HasQueryMark(frame) THEN Garble(DevReply(x.dev, frame), x.env.fault) ELSE <<>>

Fails(x, stage) == x.env.failAt = x.nsend /\ x.env.failStage = stage

Flush(x) == Event([x EXCEPT !.nsend = @ + 1], [ev |-> "flush"])

\* A write that is tried again, with success, when the transport raises.
Write_retried(x, frame, reply) ==
    Event([x EXCEPT !.dev = DevApply(@, frame),
                    !.inbuf = IF x.env.late THEN @ ELSE @ \o reply],
          [ev |-> "write", frame |-> frame])

\* write((command_string + '\n').encode()): the device takes the frame, and its
\* reply (reply) reaches the input buffer, within the settle delay unless late.
Write(x, frame, reply) ==
    IF Fails(x, "write") THEN Raise(x, "SerialException", "write failed", <<>>)
    ELSE Event([x EXCEPT !.dev = DevApply(@, frame),
                         !.inbuf = IF x.env.late THEN @ ELSE @ \o reply],
               [ev |-> "write", frame |-> frame])

\* The read returning the buffered text with white space trimmed at both ends.
Read_trimmed(x, reply) ==
    IF ~Ok(x) THEN x
    ELSE IF Fails(x, "read")
    THEN Raise([x EXCEPT !.inbuf = IF x.env.late THEN @ \o reply ELSE @],
               "SerialException", "read failed", <<>>)
    ELSE Return(Event([x EXCEPT !.inbuf = IF x.env.late THEN reply ELSE <<>>],
                      [ev |-> "read", data |-> x.inbuf]),
                Str(Strip(x.inbuf)))

\* read(inWaiting()).decode(): everything buffered; a late reply arrives afterwards.
Read(x, reply) ==
    IF ~Ok(x) THEN x
    ELSE IF Fails(x, "read")
    THEN Raise([x EXCEPT !.inbuf = IF x.env.late THEN @ \o reply ELSE @],
               "SerialException", "read failed", <<>>)
    ELSE Return(Event([x EXCEPT !.inbuf = IF x.env.late THEN reply ELSE <<>>],
                      [ev |-> "read", data |-> x.inbuf]),
                Str(x.inbuf))

\* send_command reading the input buffer without waiting the settle delay first.
Exchange_reads_unsettled(x, frame, reply) ==
    IF HasQueryMark(frame)
    THEN Sleep(Read(Write(Flush(x), frame, reply), reply), 200)
    ELSE Return(Sleep(Write(Flush(x), frame, reply), 200), None)

\* send_command reading the input buffer after every command.
Exchange_always_reads(x, frame, reply) ==
    Read(Sleep(Write(Flush(x), frame, reply), 200), reply)

Exchange(x, frame, reply) ==
    IF HasQueryMark(frame)
    THEN Read(Sleep(Write(Flush(x), frame, reply), 200), reply)
    ELSE Return(Sleep(Write(Flush(x), frame, reply), 200), None)

Transport(x, frame) == Exchange(x, frame, Reply(x, frame))

Checked(x, command_string) == IF Ok(x) THEN Transport(x, command_string) ELSE x

send_command(x, command_string) == Checked(_check_pel_connected(x), command_string)

\* ---- statements
\* A method body is the list of its statements, in source order.  Exec runs them
\* one after the other; a statement reached with an exception pending is skipped,
\* which is how a raised exception leaves the body.

SendStmt(frame) == [op |-> "send", frame |-> frame]                \* self.send_command(...)

SetStmt(field, value) == [op |-> "set", field |-> field, value |-> value]   \* self.<field> = value

SleepStmt(ms) == [op |-> "sleep", ms |-> ms]                       \* time.sleep(ms / 1000)

LogStmt(level, text) == [op |-> "log", level |-> level, text |-> text]      \* logger.<level>(text)

DecodeStmt(text) == [op |-> "decode", text |-> text]               \* parse resp as a number

OnOffStmt == [op |-> "onoff"]                                      \* int(resp) mapped to ON / OFF

ClosePortStmt == [op |-> "close"]                                  \* self.pel_com.close()

\* try: body  except serial.SerialException: log and raise RuntimeError(text)
TryStmt(body, text) == [op |-> "try", body |-> body, text |-> text]

\* The decoding every numeric read applies to the response of its query:
\* resp.split('E')[0].replace('+', ''), resp.split('E')[1].replace('+', ''),
\* _convert_to_float of both, base * pow(10, exp).
\* The decoding with the exponent dropped: the mantissa alone is returned.
Product_mantissa_only(x1, x2) ==
    IF Ok(x2) THEN Return(x2, Float(x1.ret.v)) ELSE x2

Product(x1, x2) ==
    IF Ok(x2) THEN Return(x2, Float(TimesPow10(x1.ret.v, x2.ret.v))) ELSE x2

Converted(x1, exp, error_message) == Product(x1, _convert_to_float(x1, exp, error_message))

\* The decoding taking the exponent to be 0 whatever follows the 'E'.
DecodeParts_no_exponent(x, parts, error_message) ==
    IF Len(parts) < 2
    THEN Raise(x, "IndexError", "list index out of range", x.ret.s)
    ELSE Converted(_convert_to_float(x, Str(Remove(parts[1], "+")), error_message),
                   Str(<<"0">>), error_message)

DecodeParts(x, parts, error_message) ==
    IF Len(parts) < 2
    THEN Raise(x, "IndexError", "list index out of range", x.ret.s)
    ELSE Converted(_convert_to_float(x, Str(Remove(parts[1], "+")), error_message),
                   Str(Remove(parts[2], "+")), error_message)

Decode(x, error_message) ==
    IF x.ret.t = "None"
    THEN Converted(_convert_to_float(x, None, error_message), None, error_message)
    ELSE DecodeParts(x, Split(x.ret.s, "E"), error_message)

\* resp = int(resp); 'ON' if resp == 1 else 'OFF'
OnOffOf(x, p) ==
    IF ~p.ok THEN Raise(x, "ValueError", "invalid literal for int()", x.ret.s)
    ELSE Return(x, Str(IF p.val = 1 THEN "ON" ELSE "OFF"))

OnOff(x) == OnOffOf(x, ParseInt(x.ret.s))

SetField(x, field, value) ==
    CASE field = "configured_current" -> [x EXCEPT !.configured_current = value]
      [] field = "last_current_range" -> [x EXCEPT !.last_current_range = value]
      [] field = "is_connected"       -> [x EXCEPT !.is_connected = value]

RECURSIVE Exec(_, _)
Stmt(x, s) ==
    CASE s.op = "send"   -> send_command(x, s.frame)
      [] s.op = "set"    -> SetField(x, s.field, s.value)
      [] s.op = "sleep"  -> Sleep(x, s.ms)
      [] s.op = "log"    -> Log(x, s.level, s.text, <<>>)
      [] s.op = "decode" -> Decode(x, s.text)
      [] s.op = "onoff"  -> OnOff(x)
      [] s.op = "close"  -> Event([x EXCEPT !.pel_com = "closed"], [ev |-> "close"])
      [] s.op = "try"    -> ExceptSerial(Exec(x, s.body), s.text)

Exec(x, body) ==
    IF body = <<>> \/ ~Ok(x) THEN x ELSE Exec(Stmt(x, Head(body)), Tail(body))

\* ---- the methods; self is the object when the method is entered

_mode_resistance ==
    <<SendStmt(Cmd("MODE:RES")), LogStmt("debug", "set to constant resistance mode")>>

_mode_current ==
    <<SendStmt(Cmd("MODE:CURR")), LogStmt("debug", "set to constant current mode")>>

read_identification ==
    <<SendStmt(Query("*IDN")), LogStmt("debug", "Programmable electronic load identification")>>

\* set_input_on programming the minimum range instead of the tracked one.
set_input_on_minimum_range(self) ==
    <<TryStmt(<<SendStmt(CmdV("CURR:RANG", <<Unit \div 100>>)),
                SendStmt(Cmd("INP ON"))>>,
              "Not possible to turn ON the programmable electronic load input")>>

\* set_input_on turning the input ON before it programs the range.
set_input_on_input_first(self) ==
    <<TryStmt(<<SendStmt(Cmd("INP ON")),
                SendStmt(CmdV("CURR:RANG", <<self.last_current_range>>))>>,
              "Not possible to turn ON the programmable electronic load input")>>

\* set_input_on programming the range only, without INP ON.
set_input_on_range_only(self) ==
    <<TryStmt(<<SendStmt(CmdV("CURR:RANG", <<self.last_current_range>>))>>,
              "Not possible to turn ON the programmable electronic load input")>>

set_input_on(self) ==
    <<TryStmt(<<SendStmt(CmdV("CURR:RANG", <<self.last_current_range>>)),
                SendStmt(Cmd("INP ON"))>>,
              "Not possible to turn ON the programmable electronic load input")>>

\* set_input_off tracking the minimum range it programs.
set_input_off_tracks_minimum ==
    <<TryStmt(<<SendStmt(CmdV("CURR:RANG", <<Unit \div 100>>)),
                SetStmt("last_current_range", Unit \div 100),
                SendStmt(Cmd("INP OFF"))>>,
              "Not possible to turn OFF the programmable electronic load input")>>

set_input_off ==
    <<TryStmt(<<SendStmt(CmdV("CURR:RANG", <<Unit \div 100>>)),
                SendStmt(Cmd("INP OFF"))>>,
              "Not possible to turn OFF the programmable electronic load input")>>

is_input_on_off ==
    <<TryStmt(<<SendStmt(Query("INP")), OnOffStmt>>, "Not possible to read the input status")>>

measure_current ==
    <<SendStmt(Query("MEAS:CURR")), DecodeStmt("Not possible to read current value")>>

measure_voltage ==
    <<SendStmt(Query("MEAS:VOLT")), DecodeStmt("Not possible to read voltage value")>>

\* set_resistance leaving the exponential shaping function as it is.
set_resistance_keeps_shaping(value) ==
    <<TryStmt(<<SendStmt(CmdV("RES", <<value>>))>> \o _mode_resistance,
              "Not possible to set resistance value")>>

\* set_resistance switching the mode before it programs the resistance.
set_resistance_mode_first(value) ==
    <<TryStmt(<<SendStmt(Cmd("SFUN:EXP:ENAB OFF"))>> \o _mode_resistance
                \o <<SendStmt(CmdV("RES", <<value>>))>>,
              "Not possible to set resistance value")>>

set_resistance(value) ==
    <<TryStmt(<<SendStmt(Cmd("SFUN:EXP:ENAB OFF")), SendStmt(CmdV("RES", <<value>>))>>
                \o _mode_resistance,
              "Not possible to set resistance value")>>

read_resistance_set ==
    <<SendStmt(Query("RES")), DecodeStmt("Not possible to read resistance value")>>

\* set_constant_current leaving the trigger threshold of the device alone.
set_constant_current_keeps_threshold(nominal_value) ==
    <<SetStmt("configured_current", nominal_value),
      TryStmt(<<SendStmt(Cmd("SFUN:EXP:ENAB OFF")),
                SendStmt(CmdV("CURR:RANG", <<nominal_value>>)),
                SetStmt("last_current_range", nominal_value),
                SendStmt(CmdV("CURR", <<nominal_value>>))>>
                \o _mode_current,
              "Not possible to set the current value")>>

\* set_constant_current tracking the range before any frame is sent.
set_constant_current_tracks_first(nominal_value) ==
    <<SetStmt("configured_current", nominal_value),
      TryStmt(<<SetStmt("last_current_range", nominal_value),
                SendStmt(CmdV("VOLT:PROT", <<0>>)),
                SendStmt(Cmd("SFUN:EXP:ENAB OFF")),
                SendStmt(CmdV("CURR:RANG", <<nominal_value>>)),
                SendStmt(CmdV("CURR", <<nominal_value>>))>>
                \o _mode_current,
              "Not possible to set the current value")>>

\* set_constant_current programming the current before the range.
set_constant_current_current_first(nominal_value) ==
    <<SetStmt("configured_current", nominal_value),
      TryStmt(<<SendStmt(CmdV("VOLT:PROT", <<0>>)),
                SendStmt(Cmd("SFUN:EXP:ENAB OFF")),
                SendStmt(CmdV("CURR", <<nominal_value>>)),
                SendStmt(CmdV("CURR:RANG", <<nominal_value>>)),
                SetStmt("last_current_range", nominal_value)>>
                \o _mode_current,
              "Not possible to set the current value")>>

set_constant_current(nominal_value) ==
    <<SetStmt("configured_current", nominal_value),
      TryStmt(<<SendStmt(CmdV("VOLT:PROT", <<0>>)),
                SendStmt(Cmd("SFUN:EXP:ENAB OFF")),
                SendStmt(CmdV("CURR:RANG", <<nominal_value>>)),
                SetStmt("last_current_range", nominal_value),
                SendStmt(CmdV("CURR", <<nominal_value>>))>>
                \o _mode_current,
              "Not possible to set the current value")>>

\* set_trigger_voltage without a handler of its own.
set_trigger_voltage_unguarded(value) ==
    <<SendStmt(CmdV("VOLT:PROT", <<value>>))>>

set_trigger_voltage(value) ==
    <<TryStmt(<<SendStmt(CmdV("VOLT:PROT", <<value>>))>>,
              "Not possible to set the trigger voltage value")>>

read_trigger_voltage_set ==
    <<SendStmt(Query("VOLT:PROT")), DecodeStmt("Not possible to read trigger voltage value")>>

\* set_inrush_current with the two shaping functions exchanged.
set_inrush_current_swapped_shapes(nominal_value, inrush_value, inrush_time, is_exponential, off_to_on_thr) ==
    <<SetStmt("configured_current", nominal_value),
      TryStmt(IF inrush_time = 0
              THEN set_constant_current(nominal_value)
              ELSE <<SendStmt(Frame(<<"CURR:RANG", ";", ":CURR", ";", "MODE:CURR">>,
                                    <<inrush_value, 0>>)),
                     SetStmt("last_current_range", inrush_value),
                     SleepStmt(1000)>>
                   \o set_trigger_voltage(off_to_on_thr)
                   \o <<IF is_exponential
                        THEN SendStmt(CmdV("SFUN:EXP",
                                 <<inrush_value, nominal_value, 1, inrush_time, Unit \div 50>>))
                        ELSE SendStmt(CmdV("SFUN:EXP",
                                 <<inrush_value, nominal_value, inrush_time \div 3, 0, 0>>)),
                        SendStmt(Cmd("SFUN:EXP:ENAB ON")),
                        SendStmt(Cmd("INP ON"))>>,
              "Not possible to set the current value")>>

\* set_inrush_current turning the input ON before the shaping function is enabled.
set_inrush_current_input_first(nominal_value, inrush_value, inrush_time, is_exponential, off_to_on_thr) ==
    <<SetStmt("configured_current", nominal_value),
      TryStmt(IF inrush_time = 0
              THEN set_constant_current(nominal_value)
              ELSE <<SendStmt(Frame(<<"CURR:RANG", ";", ":CURR", ";", "MODE:CURR">>,
                                    <<inrush_value, 0>>)),
                     SetStmt("last_current_range", inrush_value),
                     SleepStmt(1000)>>
                   \o set_trigger_voltage(off_to_on_thr)
                   \o <<IF is_exponential
                        THEN SendStmt(CmdV("SFUN:EXP",
                                 <<inrush_value, nominal_value, inrush_time \div 3, 0, 0>>))
                        ELSE SendStmt(CmdV("SFUN:EXP",
                                 <<inrush_value, nominal_value, 1, inrush_time, Unit \div 50>>)),
                        SendStmt(Cmd("INP ON")),
                        SendStmt(Cmd("SFUN:EXP:ENAB ON"))>>,
              "Not possible to set the current value")>>

\* set_inrush_current taking the constant-current branch on inrush_value = 0
\* instead of inrush_time = 0.
set_inrush_current_on_value(nominal_value, inrush_value, inrush_time, is_exponential, off_to_on_thr) ==
    <<SetStmt("configured_current", nominal_value),
      TryStmt(IF inrush_value = 0
              THEN set_constant_current(nominal_value)
              ELSE <<SendStmt(Frame(<<"CURR:RANG", ";", ":CURR", ";", "MODE:CURR">>,
                                    <<inrush_value, 0>>)),
                     SetStmt("last_current_range", inrush_value),
                     SleepStmt(1000)>>
                   \o set_trigger_voltage(off_to_on_thr)
                   \o <<IF is_exponential
                        THEN SendStmt(CmdV("SFUN:EXP",
                                 <<inrush_value, nominal_value, inrush_time \div 3, 0, 0>>))
                        ELSE SendStmt(CmdV("SFUN:EXP",
                                 <<inrush_value, nominal_value, 1, inrush_time, Unit \div 50>>)),
                        SendStmt(Cmd("SFUN:EXP:ENAB ON")),
                        SendStmt(Cmd("INP ON"))>>,
              "Not possible to set the current value")>>

set_inrush_current(nominal_value, inrush_value, inrush_time, is_exponential, off_to_on_thr) ==
    <<SetStmt("configured_current", nominal_value),
      TryStmt(IF inrush_time = 0
              THEN set_constant_current(nominal_value)
              ELSE <<SendStmt(Frame(<<"CURR:RANG", ";", ":CURR", ";", "MODE:CURR">>,
                                    <<inrush_value, 0>>)),
                     SetStmt("last_current_range", inrush_value),
                     SleepStmt(1000)>>
                   \o set_trigger_voltage(off_to_on_thr)
                   \o <<IF is_exponential
                        THEN SendStmt(CmdV("SFUN:EXP",
                                 <<inrush_value, nominal_value, inrush_time \div 3, 0, 0>>))
                        ELSE SendStmt(CmdV("SFUN:EXP",
                                 <<inrush_value, nominal_value, 1, inrush_time, Unit \div 50>>)),
                        SendStmt(Cmd("SFUN:EXP:ENAB ON")),
                        SendStmt(Cmd("INP ON"))>>,
              "Not possible to set the current value")>>

\* perform_pulse taking the peak as the new configured current.
perform_pulse_adopts_peak(self, current, duration) ==
    <<TryStmt(<<SetStmt("last_current_range", Max(current, Format3(self.configured_current))),
                SetStmt("configured_current", current),
                SendStmt(Cmd("SFUN:EXP:ENAB OFF")),
                SendStmt(CmdV("CURR:RANG", <<Max(current, Format3(self.configured_current))>>)),
                SendStmt(CmdV("LIST:CURR", <<current, Format3(self.configured_current)>>)),
                SendStmt(CmdV("LIST:CURR:RTIM", <<0, 0>>)),
                SendStmt(CmdV("LIST:CURR:DWEL", <<Format3(duration), Unit \div 1000>>)),
                SendStmt(CmdV("LIST:COUN", <<1>>)),
                SendStmt(Cmd("INP ON")),
                SendStmt(Cmd("LIST:STAT ON"))>>,
              "Not possible to set the programmable electronic load to perform pulse current")>>

\* perform_pulse enabling the list before the input is turned ON.
perform_pulse_list_first(self, current, duration) ==
    <<TryStmt(<<SetStmt("last_current_range", Max(current, Format3(self.configured_current))),
                SendStmt(Cmd("SFUN:EXP:ENAB OFF")),
                SendStmt(CmdV("CURR:RANG", <<Max(current, Format3(self.configured_current))>>)),
                SendStmt(CmdV("LIST:CURR", <<current, Format3(self.configured_current)>>)),
                SendStmt(CmdV("LIST:CURR:RTIM", <<0, 0>>)),
                SendStmt(CmdV("LIST:CURR:DWEL", <<Format3(duration), Unit \div 1000>>)),
                SendStmt(CmdV("LIST:COUN", <<1>>)),
                SendStmt(Cmd("LIST:STAT ON")),
                SendStmt(Cmd("INP ON"))>>,
              "Not possible to set the programmable electronic load to perform pulse current")>>

\* perform_pulse programming the range before it disables exponential mode.
perform_pulse_range_first(self, current, duration) ==
    <<TryStmt(<<SetStmt("last_current_range", Max(current, Format3(self.configured_current))),
                SendStmt(CmdV("CURR:RANG", <<Max(current, Format3(self.configured_current))>>)),
                SendStmt(Cmd("SFUN:EXP:ENAB OFF")),
                SendStmt(CmdV("LIST:CURR", <<current, Format3(self.configured_current)>>)),
                SendStmt(CmdV("LIST:CURR:RTIM", <<0, 0>>)),
                SendStmt(CmdV("LIST:CURR:DWEL", <<Format3(duration), Unit \div 1000>>)),
                SendStmt(CmdV("LIST:COUN", <<1>>)),
                SendStmt(Cmd("INP ON")),
                SendStmt(Cmd("LIST:STAT ON"))>>,
              "Not possible to set the programmable electronic load to perform pulse current")>>

\* perform_pulse taking the peak alone as the range.
perform_pulse_peak_only(self, current, duration) ==
    <<TryStmt(<<SetStmt("last_current_range", current),
                SendStmt(Cmd("SFUN:EXP:ENAB OFF")),
                SendStmt(CmdV("CURR:RANG", <<current>>)),
                SendStmt(CmdV("LIST:CURR", <<current, Format3(self.configured_current)>>)),
                SendStmt(CmdV("LIST:CURR:RTIM", <<0, 0>>)),
                SendStmt(CmdV("LIST:CURR:DWEL", <<Format3(duration), Unit \div 1000>>)),
                SendStmt(CmdV("LIST:COUN", <<1>>)),
                SendStmt(Cmd("INP ON")),
                SendStmt(Cmd("LIST:STAT ON"))>>,
              "Not possible to set the programmable electronic load to perform pulse current")>>

perform_pulse(self, current, duration) ==
    LET dur                 == Format3(duration)
        current_after_pulse == Format3(self.configured_current)
        max_current         == Max(current, current_after_pulse)
    IN  <<TryStmt(<<SetStmt("last_current_range", max_current),
                    SendStmt(Cmd("SFUN:EXP:ENAB OFF")),
                    SendStmt(CmdV("CURR:RANG", <<max_current>>)),
                    SendStmt(CmdV("LIST:CURR", <<current, current_after_pulse>>)),
                    SendStmt(CmdV("LIST:CURR:RTIM", <<0, 0>>)),
                    SendStmt(CmdV("LIST:CURR:DWEL", <<dur, Unit \div 1000>>)),
                    SendStmt(CmdV("LIST:COUN", <<1>>)),
                    SendStmt(Cmd("INP ON")),
                    SendStmt(Cmd("LIST:STAT ON"))>>,
                  "Not possible to set the programmable electronic load to perform pulse current")>>

\* reset putting the tracked fields back to their initial values as well.
reset_clears_fields ==
    <<TryStmt(<<SendStmt(Cmd("*RST"))>>,
              "Not possible to reset the programmable electronic load"),
      SetStmt("configured_current", 0),
      SetStmt("last_current_range", Unit)>>

reset ==
    <<TryStmt(<<SendStmt(Cmd("*RST"))>>,
              "Not possible to reset the programmable electronic load")>>

\* read_current_set taking the session's configured current back to 0.
read_current_set_clears_field ==
    <<SetStmt("configured_current", 0),
      SendStmt(Query("CURR")), DecodeStmt("Not possible to read current value")>>

read_current_set ==
    <<SendStmt(Query("CURR")), DecodeStmt("Not possible to read current value")>>

\* close_connection marking an already closed session connected again.
close_connection_reconnects(self) ==
    IF self.is_connected
    THEN <<SendStmt(Cmd("GTL")),
           ClosePortStmt,
           SetStmt("is_connected", FALSE),
           LogStmt("info", "Closed connection with programmable electronic load")>>
    ELSE <<SetStmt("is_connected", TRUE)>>

\* close_connection clearing is_connected before it closes the port.
close_connection_flag_first(self) ==
    IF self.is_connected
    THEN <<SendStmt(Cmd("GTL")),
           SetStmt("is_connected", FALSE),
           ClosePortStmt,
           LogStmt("info", "Closed connection with programmable electronic load")>>
    ELSE <<LogStmt("warning", "Connection with programmable electronic load is already closed")>>

\* close_connection forgetting to clear is_connected.
close_connection_keeps_flag(self) ==
    IF self.is_connected
    THEN <<SendStmt(Cmd("GTL")),
           ClosePortStmt,
           LogStmt("info", "Closed connection with programmable electronic load")>>
    ELSE <<LogStmt("warning", "Connection with programmable electronic load is already closed")>>

\* close_connection closing the port without sending GTL.
close_connection_no_gtl(self) ==
    IF self.is_connected
    THEN <<ClosePortStmt,
           SetStmt("is_connected", FALSE),
           LogStmt("info", "Closed connection with programmable electronic load")>>
    ELSE <<LogStmt("warning", "Connection with programmable electronic load is already closed")>>

close_connection(self) ==
    IF self.is_connected
    THEN <<SendStmt(Cmd("GTL")),
           ClosePortStmt,
           SetStmt("is_connected", FALSE),
           LogStmt("info", "Closed connection with programmable electronic load")>>
    ELSE <<LogStmt("warning", "Connection with programmable electronic load is already closed")>>

\* The constructor marking the session connected although the port did not open.
__init___always_connected(x, port_name, opens) ==
    IF opens
    THEN Log(Event([x EXCEPT !.port_name = port_name, !.pel_com = "open", !.is_connected = TRUE,
                             !.configured_current = 0, !.last_current_range = Unit],
                   [ev |-> "open", port |-> port_name, baudrate |-> 9600,
                    parity |-> "E", stopbits |-> 2, bytesize |-> 8]),
             "info", "Connection with programmable electronic load successful", <<port_name>>)
    ELSE Raise(Log([x EXCEPT !.port_name = port_name, !.pel_com = "None", !.is_connected = TRUE,
                             !.configured_current = 0, !.last_current_range = Unit],
                   "error", "Not possible to open serial port", <<port_name>>),
               "RuntimeError", "Not possible to open serial port", <<port_name>>)

\* HHPEL(port_name): opens is whether serial.Serial(...) returns a handle; when it
\* raises SerialException the error is logged and RuntimeError raised.
__init__(x, port_name, opens) ==
    LET x0 == [x EXCEPT !.port_name = port_name, !.is_connected = FALSE, !.pel_com = "None",
                        !.configured_current = 0, !.last_current_range = Unit]
        x1 == Event(x0, [ev |-> "open", port |-> port_name, baudrate |-> 9600,
                         parity |-> "E", stopbits |-> 2, bytesize |-> 8])
    IN  IF opens
        THEN Log([x1 EXCEPT !.pel_com = "open", !.is_connected = TRUE], "info",
                 "Connection with programmable electronic load successful", <<port_name>>)
        ELSE Raise([Log(x1, "error", "Not possible to open serial port", <<port_name>>)
                        EXCEPT !.pel_com = "None", !.is_connected = FALSE],
                   "RuntimeError", "Not possible to open serial port", <<port_name>>)

\* ------------------------------------------------------------ state machine

VARIABLES
    phase,                \* "new" before HHPEL(...), "live" once constructed, "dead" when the constructor raised
    pc,                   \* the caller: "idle" between calls, "returned" holding a call's result
    port_name, is_connected, pel_com, configured_current, last_current_range,
    dev,                  \* the device at the other end of the line
    inbuf,                \* bytes waiting in the serial input buffer
    lastOp,               \* the call that returned: its name, arguments and environment
    trace,                \* the events of that call, in order
    exc,                  \* the exception it raised (kind "None": it returned normally)
    ret,                  \* the value it returned
    running               \* per caller sharing the object: the method it is inside and its next statement

vars == <<phase, pc, port_name, is_connected, pel_com, configured_current, last_current_range,
          dev, inbuf, lastOp, trace, exc, ret, running>>

\* The context a call starts in, under environment e.
Ctx(e) ==
    [port_name |-> port_name, is_connected |-> is_connected, pel_com |-> pel_com,
     configured_current |-> configured_current, last_current_range |-> last_current_range,
     dev |-> dev, inbuf |-> inbuf, trace |-> <<>>, exc |-> NoExc, ret |-> None,
     nsend |-> 0, env |-> e]

NoOp == [name |-> "none", args |-> <<>>, env |-> Calm]

\* The threads of the embedding application that hold the object.
Callers == {"A", "B"}

\* A caller outside every method of the object.
Resting == [name |-> "none", at |-> 0]

\* The state a call leaves.
Commit(x, name, args) ==
    /\ pc' = "returned"
    /\ port_name' = x.port_name
    /\ is_connected' = x.is_connected
    /\ pel_com' = x.pel_com
    /\ configured_current' = x.configured_current
    /\ last_current_range' = x.last_current_range
    /\ dev' = x.dev
    /\ inbuf' = x.inbuf
    /\ lastOp' = [name |-> name, args |-> args, env |-> x.env]
    /\ trace' = x.trace
    /\ exc' = x.exc
    /\ ret' = IF Ok(x) THEN x.ret ELSE None
    /\ running' = running

\* ---- the values the calls are made with, and the environments they run in

\* One current with more than three decimals (1.2344 A), and 1..MaxAmp Amperes.
Amps == {1234400} \cup {k * Unit : k \in 1..MaxAmp}

Ohms == {12500000}

Volts == {0, 6 * Unit}

Times == {0, 300000}

\* Pulse durations: 0.3 s, and one with more than three decimals (0.0123 s).
Durations == {300000, 12300}

Ports == {"COM4", "COMX"}

UserCommands == {Query("*IDN"), Query("MODE"), Cmd("MODE:VOLT")}

Faults == {"none", "empty", "noE", "badMantissa", "badExponent"}

\* Environments of a call that sends up to n frames.  A profile P says which
\* misbehaviour of the transport a specification offers: P.fails, the write of
\* any one send may raise SerialException; P.faults, the garbled replies.
SendEnvs(P, n) == {Env(k, "write", "none", FALSE) : k \in 0..(IF P.fails THEN n ELSE 0)}

QueryEnvs(P) ==
    {Env(k, "write", "none", FALSE) : k \in 0..(IF P.fails THEN 1 ELSE 0)}
        \cup {Env(0, "write", f, FALSE) : f \in P.faults}
        \cup {Env(0, "write", "none", l) : l \in P.late}

Init ==
    /\ phase = "new"
    /\ pc = "idle"
    /\ port_name = ""
    /\ is_connected = FALSE
    /\ pel_com = "None"
    /\ configured_current = 0
    /\ last_current_range = Unit
    /\ dev = DevInit
    /\ inbuf = <<>>
    /\ lastOp = NoOp
    /\ trace = <<>>
    /\ exc = NoExc
    /\ ret = None
    /\ running = [c \in Callers |-> Resting]

\* The caller takes the result of the call (its value or its exception) and goes on.
Proceed ==
    /\ pc = "returned"
    /\ pc' = "idle"
    /\ lastOp' = NoOp
    /\ trace' = <<>>
    /\ exc' = NoExc
    /\ ret' = None
    /\ UNCHANGED <<phase, port_name, is_connected, pel_com, configured_current,
                   last_current_range, dev, inbuf, running>>

\* HHPEL(port): the port COMX does not exist; an existing port may still fail to open.
Open ==
    /\ phase # "live"
    /\ pc = "idle"
    /\ \E p \in Ports, opens \in BOOLEAN :
          /\ (p = "COMX" => ~opens)
          /\ LET x == __init__(Ctx(Calm), p, opens)
             IN  /\ phase' = IF Ok(x) THEN "live" ELSE "dead"
                 /\ Commit(x, "__init__", <<p, opens>>)

\* A method call on the constructed object.
Call(x, name, args) == phase' = phase /\ Commit(x, name, args)

Callable == phase = "live" /\ pc = "idle"

CloseConnection(P) ==
    /\ Callable
    /\ \E e \in SendEnvs(P, 1) : Call(Exec(Ctx(e), close_connection(Ctx(e))), "close_connection", <<>>)

SendCommand(P) ==
    /\ Callable
    /\ \E c \in P.cmds, e \in SendEnvs(P, 1) :
          Call(send_command(Ctx(e), c), "send_command", <<c>>)

ReadIdentification(P) ==
    /\ Callable
    /\ \E e \in SendEnvs(P, 1) : Call(Exec(Ctx(e), read_identification), "read_identification", <<>>)

SetInputOn(P) ==
    /\ Callable
    /\ \E e \in SendEnvs(P, 2) : Call(Exec(Ctx(e), set_input_on(Ctx(e))), "set_input_on", <<>>)

SetInputOff(P) ==
    /\ Callable
    /\ \E e \in SendEnvs(P, 2) : Call(Exec(Ctx(e), set_input_off), "set_input_off", <<>>)

IsInputOnOff(P) ==
    /\ Callable
    /\ \E e \in QueryEnvs(P) : Call(Exec(Ctx(e), is_input_on_off), "is_input_on_off", <<>>)

MeasureCurrent(P) ==
    /\ Callable
    /\ \E e \in QueryEnvs(P) : Call(Exec(Ctx(e), measure_current), "measure_current", <<>>)

MeasureVoltage(P) ==
    /\ Callable
    /\ \E e \in QueryEnvs(P) : Call(Exec(Ctx(e), measure_voltage), "measure_voltage", <<>>)

SetResistance(P) ==
    /\ Callable
    /\ \E v \in P.ohms, e \in SendEnvs(P, 3) :
          Call(Exec(Ctx(e), set_resistance(v)), "set_resistance", <<v>>)

ReadResistanceSet(P) ==
    /\ Callable
    /\ \E e \in QueryEnvs(P) : Call(Exec(Ctx(e), read_resistance_set), "read_resistance_set", <<>>)

SetConstantCurrent(P) ==
    /\ Callable
    /\ \E v \in P.amps, e \in SendEnvs(P, 5) :
          Call(Exec(Ctx(e), set_constant_current(v)), "set_constant_current", <<v>>)

ReadCurrentSet(P) ==
    /\ Callable
    /\ \E e \in QueryEnvs(P) : Call(Exec(Ctx(e), read_current_set), "read_current_set", <<>>)

SetTriggerVoltage(P) ==
    /\ Callable
    /\ \E v \in P.volts, e \in SendEnvs(P, 1) :
          Call(Exec(Ctx(e), set_trigger_voltage(v)), "set_trigger_voltage", <<v>>)

ReadTriggerVoltageSet(P) ==
    /\ Callable
    /\ \E e \in QueryEnvs(P) :
          Call(Exec(Ctx(e), read_trigger_voltage_set), "read_trigger_voltage_set", <<>>)

SetInrushCurrent(P) ==
    /\ Callable
    /\ \E n \in P.amps, i \in P.amps, t \in Times, ex \in BOOLEAN, thr \in P.volts,
          e \in SendEnvs(P, 5) :
          Call(Exec(Ctx(e), set_inrush_current(n, i, t, ex, thr)), "set_inrush_current",
               <<n, i, t, ex, thr>>)

PerformPulse(P) ==
    /\ Callable
    /\ \E c \in P.amps, d \in Durations, e \in SendEnvs(P, 8) :
          Call(Exec(Ctx(e), perform_pulse(Ctx(e), c, d)), "perform_pulse", <<c, d>>)

Reset(P) ==
    /\ Callable
    /\ \E e \in SendEnvs(P, 1) : Call(Exec(Ctx(e), reset), "reset", <<>>)

Calls(P) ==
    \/ CloseConnection(P)
    \/ SendCommand(P)
    \/ ReadIdentification(P)
    \/ SetInputOn(P)
    \/ SetInputOff(P)
    \/ IsInputOnOff(P)
    \/ MeasureCurrent(P)
    \/ MeasureVoltage(P)
    \/ SetResistance(P)
    \/ ReadResistanceSet(P)
    \/ SetConstantCurrent(P)
    \/ ReadCurrentSet(P)
    \/ SetTriggerVoltage(P)
    \/ ReadTriggerVoltageSet(P)
    \/ SetInrushCurrent(P)
    \/ PerformPulse(P)
    \/ Reset(P)

\* The transport never raises once it is open and every reply arrives intact.
Reliable ==
    [fails |-> FALSE, faults |-> {"none"}, amps |-> Amps, ohms |-> Ohms, volts |-> Volts,
     cmds |-> UserCommands, late |-> {}]

Next == Open \/ Proceed \/ Calls(Reliable)

Spec == Init /\ [][Next]_vars

\* Replies may arrive garbled or not at all.
Noisy ==
    [fails |-> FALSE, faults |-> Faults, amps |-> Amps, ohms |-> Ohms \cup {Unit \div 20},
     volts |-> {6 * Unit},
     cmds |-> {Query("*IDN")}, late |-> {}]

NextNoisy == Open \/ Proceed \/ Calls(Noisy)

SpecNoisy == Init /\ [][NextNoisy]_vars

\* The write of any one send of a call may raise SerialException.  Two currents
\* are offered, one of them with more than three decimals.
Failing ==
    [fails |-> TRUE, faults |-> {"none"}, amps |-> {Unit, 1234400}, ohms |-> Ohms,
     volts |-> {6 * Unit}, cmds |-> {Query("*IDN")}, late |-> {}]

NextFailing == Open \/ Proceed \/ Calls(Failing)

SpecFailing == Init /\ [][NextFailing]_vars

\* The reply to a query may reach the input buffer only after the settle delay
\* of its send_command has elapsed and the buffer has been read.
Tardy ==
    [fails |-> FALSE, faults |-> {"none"}, amps |-> {Unit}, ohms |-> Ohms,
     volts |-> {6 * Unit}, cmds |-> {Query("*IDN")}, late |-> {TRUE}]

NextTardy == Open \/ Proceed \/ Calls(Tardy)

SpecTardy == Init /\ [][NextTardy]_vars

\* ---- two callers on one object
\* The threads run the methods statement by statement, one statement of one
\* caller at a time (a send_command is one statement); the transport is reliable.
\* The trace is the record of the line since it was last quiet: who entered
\* which method, whose turn each statement was, and the events of the statement.

\* At most MaxCalls methods are entered before the line is let go quiet.
MaxCalls == 2

ConcurrentOps == {"set_input_on", "set_input_off"}

BodyOf(name, self) ==
    CASE name = "set_input_on"  -> set_input_on(self)
      [] name = "set_input_off" -> set_input_off

\* The statements of a body one after the other, those of a try block in their
\* place: with no SerialException raised the handler is never entered.
RECURSIVE Flat(_)
Flat(body) ==
    IF body = <<>> THEN <<>>
    ELSE IF Head(body).op = "try" THEN Flat(Head(body).body) \o Flat(Tail(body))
    ELSE <<Head(body)>> \o Flat(Tail(body))

Entered(tr) == Len(SelectSeq(tr, LAMBDA e : e.ev = "call"))

\* A lock held by whoever is inside a method.
MayEnter_locked(c) == \A d \in Callers : running[d] = Resting

\* What a caller has to wait for before it enters a method: nothing, the class
\* has no lock.
MayEnter(c) == TRUE

Enter(c, name) ==
    /\ phase = "live" /\ pc = "idle"
    /\ running[c] = Resting
    /\ MayEnter(c)
    /\ Entered(trace) < MaxCalls
    /\ running' = [running EXCEPT ![c] = [name |-> name, at |-> 1]]
    /\ trace' = Append(trace, [ev |-> "call", by |-> c, name |-> name])
    /\ lastOp' = [name |-> name, args |-> <<>>, env |-> Calm]
    /\ UNCHANGED <<phase, pc, port_name, is_connected, pel_com, configured_current,
                   last_current_range, dev, inbuf, exc, ret>>

\* The state caller c's statement leaves; last: it was the last of the method.
Took(c, x, last) ==
    /\ port_name' = x.port_name
    /\ is_connected' = x.is_connected
    /\ pel_com' = x.pel_com
    /\ configured_current' = x.configured_current
    /\ last_current_range' = x.last_current_range
    /\ dev' = x.dev
    /\ inbuf' = x.inbuf
    /\ trace' = trace \o <<[ev |-> "turn", by |-> c]>> \o x.trace
    /\ exc' = x.exc
    /\ ret' = IF Ok(x) THEN x.ret ELSE None
    /\ running' = [running EXCEPT ![c] = IF last \/ ~Ok(x) THEN Resting
                                         ELSE [@ EXCEPT !.at = @ + 1]]
    /\ pc' = IF \A d \in Callers : running'[d] = Resting THEN "returned" ELSE "idle"
    /\ UNCHANGED <<phase, lastOp>>

\* The statement caller c is at, as the object stands now.
Statements(c) == Flat(BodyOf(running[c].name, Ctx(Calm)))

Step(c) ==
    /\ phase = "live" /\ pc = "idle"
    /\ running[c] # Resting
    /\ Took(c, Stmt(Ctx(Calm), Statements(c)[running[c].at]),
            running[c].at = Len(Statements(c)))

NextConcurrent ==
    \/ Open
    \/ Proceed
    \/ \E c \in Callers, name \in ConcurrentOps : Enter(c, name)
    \/ \E c \in Callers : Step(c)

SpecConcurrent == Init /\ [][NextConcurrent]_vars

\* -------------------------------------------------------------- properties

\* What a call did on the transport.
IsIO(e) == e.ev \in {"open", "flush", "write", "read", "close"}

NoTransport(tr) == \A i \in 1..Len(tr) : ~IsIO(tr[i])

Written(tr) == SelectSeq(tr, LAMBDA e : e.ev = "write")

Logged(tr, level, text) ==
    \E i \in 1..Len(tr) : tr[i].ev = "log" /\ tr[i].level = level /\ tr[i].text = text

\* A step in which the caller's call of a method returns (or raises).
Returns == pc = "idle" /\ pc' = "returned"

MethodNames ==
    {"send_command", "read_identification", "set_input_on", "set_input_off", "is_input_on_off",
     "measure_current", "measure_voltage", "set_resistance", "read_resistance_set",
     "set_constant_current", "read_current_set", "set_trigger_voltage",
     "read_trigger_voltage_set", "set_inrush_current", "perform_pulse", "reset"}

\* C1: on a session that close_connection() has closed, every operation other than
\* close_connection raises the not-connected RuntimeError, writes no frame and
\* reads nothing: the call makes no transport call at all.
C1_ClosedSessionRejects ==
    [][(Returns /\ phase = "live" /\ ~is_connected /\ lastOp'.name # "close_connection")
          => /\ lastOp'.name \in MethodNames
             /\ exc'.kind = "RuntimeError"
             /\ exc'.text = ClosedText
             /\ NoTransport(trace')
             /\ inbuf' = inbuf /\ dev' = dev]_vars

C1_Witness ==
    /\ pc = "returned" /\ phase = "live" /\ ~is_connected
    /\ lastOp.name = "perform_pulse"
    /\ exc.kind = "RuntimeError" /\ exc.text = ClosedText
    /\ NoTransport(trace)

\* C2: a close_connection that returns leaves is_connected = FALSE, and
\* close_connection on a session that is already disconnected does not raise,
\* makes no transport call, changes no field and only logs a warning.
C2_CloseIdempotent ==
    [][(Returns /\ lastOp'.name = "close_connection")
          => /\ ~is_connected'
             /\ exc'.kind = "None"
             /\ ~is_connected =>
                  /\ trace' = <<[ev |-> "log", level |-> "warning",
                                 text |-> "Connection with programmable electronic load is already closed",
                                 arg |-> <<>>]>>
                  /\ UNCHANGED <<phase, port_name, is_connected, pel_com, configured_current,
                                 last_current_range, dev, inbuf>>]_vars

C2_Witness ==
    /\ pc = "returned" /\ lastOp.name = "close_connection" /\ ~is_connected
    /\ pel_com = "closed"
    /\ Len(trace) = 1 /\ trace[1].ev = "log" /\ trace[1].level = "warning"
    /\ exc.kind = "None"

\* C3 as stated: close_connection never raises, whatever the transport does while
\* GTL is sent.
C3_CloseNeverFails ==
    (pc = "returned" /\ lastOp.name = "close_connection") => exc.kind = "None"

\* C3: close_connection does not raise on a session that is already disconnected,
\* nor on a connected one whose transport takes the GTL frame; when the transport
\* fails while GTL is sent the SerialException reaches the caller, nothing is
\* logged, the port is not closed and is_connected stays TRUE.
C3_CloseFailsOnlyOnTransport ==
    [][(Returns /\ lastOp'.name = "close_connection")
          => IF ~is_connected
             THEN exc'.kind = "None" /\ NoTransport(trace')
             ELSE IF lastOp'.env.failAt = 0
             THEN /\ exc'.kind = "None" /\ ~is_connected' /\ pel_com' = "closed"
                  /\ Written(trace') = <<[ev |-> "write", frame |-> Cmd("GTL")]>>
             ELSE /\ exc'.kind = "SerialException"
                  /\ is_connected' /\ pel_com' = "open"
                  /\ Written(trace') = <<>>
                  /\ ~Logged(trace', "error", exc'.text)]_vars

C3_Witness ==
    /\ pc = "returned" /\ lastOp.name = "close_connection" /\ lastOp.env.failAt = 1
    /\ exc.kind = "SerialException" /\ is_connected /\ pel_com = "open"

\* C4: when the serial port cannot be opened the constructor logs the error
\* 'Not possible to open serial port' with the port name, then raises RuntimeError
\* with that text and port name, and leaves is_connected = FALSE and no serial
\* handle; when the port opens the session is connected.
C4_OpenFailure ==
    (pc = "returned" /\ lastOp.name = "__init__")
       => IF lastOp.args[2]
          THEN /\ exc.kind = "None" /\ is_connected /\ pel_com = "open" /\ phase = "live"
               /\ port_name = lastOp.args[1]
          ELSE /\ exc = [kind |-> "RuntimeError", text |-> "Not possible to open serial port",
                         arg |-> <<lastOp.args[1]>>]
               /\ trace # <<>>
               /\ trace[Len(trace)] = [ev |-> "log", level |-> "error",
                                       text |-> "Not possible to open serial port",
                                       arg |-> <<lastOp.args[1]>>]
               /\ ~is_connected /\ pel_com = "None" /\ phase = "dead"

C4_Witness ==
    /\ pc = "returned" /\ lastOp.name = "__init__" /\ lastOp.args = <<"COMX", FALSE>>
    /\ exc.kind = "RuntimeError" /\ ~is_connected /\ pel_com = "None"

NumericReads ==
    {"measure_current", "measure_voltage", "read_current_set", "read_resistance_set",
     "read_trigger_voltage_set"}

ReadErrorText(name) ==
    CASE name = "measure_current"          -> "Not possible to read current value"
      [] name = "measure_voltage"          -> "Not possible to read voltage value"
      [] name = "read_current_set"         -> "Not possible to read current value"
      [] name = "read_resistance_set"      -> "Not possible to read resistance value"
      [] name = "read_trigger_voltage_set" -> "Not possible to read trigger voltage value"

Malformed == {"noE", "badMantissa", "badExponent"}

\* C5: a numeric read on a connected session whose response is malformed (bad
\* mantissa, bad exponent, no 'E') raises RuntimeError with the quantity's message
\* and logs it as an error; no other kind of exception escapes.
C5_MalformedRaisesDomainError ==
    (pc = "returned" /\ is_connected /\ lastOp.name \in NumericReads
        /\ lastOp.env.fault \in Malformed)
       => /\ exc.kind = "RuntimeError"
          /\ exc.text = ReadErrorText(lastOp.name)
          /\ Logged(trace, "error", exc.text)

\* The transport raised during the call: the send the environment fails was begun.
Flushes(tr) == Len(SelectSeq(tr, LAMBDA e : e.ev = "flush"))

TransportFailed == lastOp.env.failAt \in 1..Flushes(trace)

\* C6: when the transport fails during any operation on a connected session the
\* caller gets a RuntimeError, logged as an error first; the SerialException
\* itself never reaches the caller.
C6_TransportFailureWrapped ==
    (pc = "returned" /\ TransportFailed)
       => /\ exc.kind = "RuntimeError"
          /\ Logged(trace, "error", exc.text)

\* C7 as stated: perform_pulse(C, D) leaves last_current_range = max(C,
\* configured_current), not less than C and not less than configured_current.
C7_RangeIsMaxOfBoth ==
    (pc = "returned" /\ lastOp.name = "perform_pulse")
       => /\ last_current_range = Max(lastOp.args[1], configured_current)
          /\ last_current_range >= lastOp.args[1]
          /\ last_current_range >= configured_current

HalfMilli == Unit \div 2000

\* C7: perform_pulse(C, D) leaves last_current_range = max(C, r), r being
\* configured_current rounded to three decimal places: never less than C, and
\* below configured_current by at most half of 0.001.
C7_RangeIsMaxOfRounded ==
    (pc = "returned" /\ lastOp.name = "perform_pulse")
       => /\ last_current_range >= lastOp.args[1]
          /\ \/ /\ last_current_range = lastOp.args[1]
                /\ configured_current - lastOp.args[1] <= HalfMilli
             \/ /\ last_current_range % (2 * HalfMilli) = 0
                /\ last_current_range - configured_current \in (0 - HalfMilli)..HalfMilli

C7_Witness ==
    /\ pc = "returned" /\ lastOp.name = "perform_pulse" /\ exc.kind = "None"
    /\ lastOp.args[1] = Unit
    /\ configured_current = 1234400
    /\ last_current_range = 1234000

\* The currents a frame commands the device to source.
Commanded(frame) ==
    IF frame.cmd \in {<<"CURR">>}
    THEN {frame.args[1]}
    ELSE IF frame.cmd \in {<<"SFUN:EXP">>, <<"LIST:CURR">>}
    THEN {frame.args[1], frame.args[2]}
    ELSE {}

\* C8: after every successful operation last_current_range is at least every
\* current the operation commanded the device to source (CURR, both SFUN:EXP
\* levels, both LIST:CURR steps), and the device was given that range by the time
\* its input is ON.
C8_RangeCoversCommanded ==
    (pc = "returned" /\ exc.kind = "None")
       => /\ \A i \in 1..Len(trace) :
                trace[i].ev = "write" =>
                    \A c \in Commanded(trace[i].frame) : c <= last_current_range
          /\ (\E i \in 1..Len(trace) : trace[i].ev = "write" /\ trace[i].frame = Cmd("INP ON"))
                => dev.rang = last_current_range

\* C9: set_inrush_current(X, inrush_time = 0), with any inrush value, shape flag
\* and trigger threshold, does what set_constant_current(X) does from the same
\* state: the same events (frames written, in order), the same exception, the same
\* configured_current, last_current_range and device (mode included).
C9_ZeroInrushTimeIsConstantCurrent ==
    [][(Returns /\ lastOp'.name = "set_inrush_current" /\ lastOp'.args[3] = 0)
          => LET y == Exec(Ctx(lastOp'.env), set_constant_current(lastOp'.args[1]))
             IN  /\ trace' = y.trace
                 /\ exc' = y.exc
                 /\ configured_current' = y.configured_current
                 /\ last_current_range' = y.last_current_range
                 /\ dev' = y.dev
                 /\ is_connected' = y.is_connected /\ inbuf' = y.inbuf]_vars

C9_Witness ==
    /\ pc = "returned" /\ lastOp.name = "set_inrush_current" /\ exc.kind = "None"
    /\ lastOp.args[3] = 0 /\ lastOp.args[2] # 0 /\ lastOp.args[4]
    /\ lastOp.args[1] # lastOp.args[2]
    /\ Len(Written(trace)) = 5
    /\ dev.mode = "CURR" /\ last_current_range = lastOp.args[1]

\* The caller's next call, made on what the previous one left.
Again(x) == [x EXCEPT !.trace = <<>>, !.ret = None, !.nsend = 0]

ReadBack(set, read) == Exec(Again(Exec(Ctx(Calm), set)), read)

Ticks(d) == IF d.e >= -6 THEN d.m * Pow10(d.e + 6) ELSE d.m \div Pow10(0 - 6 - d.e)

FourDigits(v) == Dec(v).m < Pow10(4)

Exactly(x, v) == Ok(x) /\ x.ret = Float(Dec(v))

Within(x, v) ==
    /\ Ok(x) /\ x.ret.t = "float"
    /\ Ticks(x.ret.v) - v \in (0 - (v \div 2000))..(v \div 2000)
    /\ FourDigits(v) => x.ret = Float(Dec(v))

RoundTripValues == Amps \cup Ohms \cup Volts

Connected == phase = "live" /\ pc = "idle" /\ is_connected

ReplyValue(t) ==
    Norm(DigitVal(t[1]) * 1000 + DigitVal(t[3]) * 100 + DigitVal(t[4]) * 10 + DigitVal(t[5]),
         (IF t[7] = "-" THEN 0 - 1 ELSE 1) * (DigitVal(t[8]) * 10 + DigitVal(t[9])) - 3)

\* What the decoding of the numeric reads returns for the response text t.
DecodeText(t) == Decode([Ctx(Calm) EXCEPT !.ret = Str(t)], "Not possible to read current value")

\* C11: each of the five numeric reads returns mantissa x 10^exponent of the
\* response it read; the decoding gives 1.234 for "1.234E+00" and 0.05 for
\* "5.000E-02", with or without the line end.
C11_DecodeMantissaTimesPow10 ==
    /\ (pc = "returned" /\ is_connected /\ lastOp.name \in NumericReads
           /\ lastOp.env.fault = "none")
          => /\ exc.kind = "None"
             /\ \E i \in 1..Len(trace) :
                   /\ trace[i].ev = "read"
                   /\ ret = Float(ReplyValue(trace[i].data))
    /\ DecodeText(<<"1", ".", "2", "3", "4", "E", "+", "0", "0">>).ret
          = Float([m |-> 1234, e |-> -3])
    /\ DecodeText(<<"5", ".", "0", "0", "0", "E", "-", "0", "2">>).ret
          = Float([m |-> 5, e |-> -2])
    /\ DecodeText(<<"5", ".", "0", "0", "0", "E", "-", "0", "2", "\n">>).ret
          = Float([m |-> 5, e |-> -2])

C11_Witness ==
    /\ pc = "returned" /\ lastOp.name = "read_resistance_set" /\ exc.kind = "None"
    /\ trace[Len(trace)] = [ev |-> "read",
                            data |-> <<"5", ".", "0", "0", "0", "E", "-", "0", "2", "\n">>]
    /\ ret = Float([m |-> 5, e |-> -2])

\* The command text ends in the query mark.
EndsInQueryMark(frame) == frame.cmd[Len(frame.cmd)] = "?"

Reads(tr) == SelectSeq(tr, LAMBDA e : e.ev = "read")

\* C12: a send_command that completes on a connected session flushes, writes the
\* frame and waits the settle delay; it then reads the input buffer, once, and
\* returns the text read if the command contains '?', and otherwise reads nothing
\* and returns None.
C12_ReadsIffQuery ==
    (pc = "returned" /\ lastOp.name = "send_command" /\ is_connected)
       => /\ exc.kind = "None"
          /\ SubSeq(trace, 1, 3) = <<[ev |-> "flush"],
                                     [ev |-> "write", frame |-> lastOp.args[1]],
                                     [ev |-> "sleep", ms |-> 200]>>
          /\ IF EndsInQueryMark(lastOp.args[1])
             THEN /\ Len(trace) = 4 /\ trace[4].ev = "read"
                  /\ ret = Str(trace[4].data)
             ELSE /\ Len(trace) = 3 /\ Reads(trace) = <<>>
                  /\ ret = None

C12_Witness ==
    /\ pc = "returned" /\ lastOp.name = "send_command" /\ is_connected
    /\ lastOp.args[1] = Cmd("MODE:VOLT")
    /\ Reads(trace) = <<>> /\ ret = None /\ dev.mode = "VOLT"

\* C13: within a session (the object once constructed) no step takes is_connected
\* from FALSE to TRUE, whatever is called and whether or not the transport fails:
\* is_connected only ever changes from TRUE to FALSE.
C13_NeverReconnects ==
    [][(phase = "live" /\ ~is_connected) => (phase' = "live" /\ ~is_connected')]_vars

C13_Witness ==
    /\ phase = "live" /\ pc = "returned" /\ ~is_connected
    /\ lastOp.name = "set_input_on"
    /\ exc.kind = "RuntimeError"
    /\ pel_com = "closed"

\* The caller's next call body, made on what the call x left.
After(x, body) == Exec(Again(x), body)

TurnedOn(x) == After(x, set_input_on(x))

TurnedOff(x) == After(x, set_input_off)

InputStatus(x) == After(x, is_input_on_off)

IsStatus(x, status) == Ok(x) /\ x.ret = Str(status)

\* C14: on a connected session, whatever was called before, is_input_on_off()
\* returns 'ON' when the last input command completed was set_input_on and 'OFF'
\* when it was set_input_off, also when the other one preceded it.
C14_StatusFollowsLastInputCommand ==
    Connected =>
       /\ IsStatus(InputStatus(TurnedOn(Ctx(Calm))), "ON")
       /\ IsStatus(InputStatus(TurnedOff(Ctx(Calm))), "OFF")
       /\ IsStatus(InputStatus(TurnedOn(TurnedOff(Ctx(Calm)))), "ON")
       /\ IsStatus(InputStatus(TurnedOff(TurnedOn(Ctx(Calm)))), "OFF")

C14_Witness ==
    /\ pc = "returned" /\ lastOp.name = "is_input_on_off" /\ exc.kind = "None"
    /\ ret = Str("OFF")
    /\ dev.rang = Unit \div 100 /\ dev.inp = "OFF"
    /\ last_current_range = 1234400

\* C15: reset() on a connected session writes the single frame *RST and leaves
\* configured_current and last_current_range as they were; the device is back in
\* its default state, so is_input_on_off() right after it returns 'OFF', and a
\* set_input_on() after it programs the range tracked before the reset.
C15_ResetKeepsFields ==
    [][(Returns /\ lastOp'.name = "reset" /\ is_connected)
          => /\ exc'.kind = "None"
             /\ Written(trace') = <<[ev |-> "write", frame |-> Cmd("*RST")]>>
             /\ configured_current' = configured_current
             /\ last_current_range' = last_current_range
             /\ dev' = DevInit
             /\ IsStatus(InputStatus(Exec(Ctx(Calm), reset)), "OFF")
             /\ Written(TurnedOn(Exec(Ctx(Calm), reset)).trace)
                   = <<[ev |-> "write", frame |-> CmdV("CURR:RANG", <<last_current_range>>)],
                       [ev |-> "write", frame |-> Cmd("INP ON")]>>
             /\ TurnedOn(Exec(Ctx(Calm), reset)).dev.rang = last_current_range]_vars

C15_Witness ==
    /\ pc = "returned" /\ lastOp.name = "reset" /\ exc.kind = "None"
    /\ dev = DevInit
    /\ configured_current = 1234400 /\ last_current_range = 1234400

InrushFailed == pc = "returned" /\ lastOp.name = "set_inrush_current" /\ TransportFailed

\* C16 as stated: a transport failure at any step of set_inrush_current, the
\* trigger-voltage step included, is raised and logged as 'Not possible to set the
\* current value'.
C16_InrushFailureText ==
    InrushFailed
       => /\ exc.kind = "RuntimeError"
          /\ exc.text = "Not possible to set the current value"
          /\ Logged(trace, "error", exc.text)

\* C16: a transport failure at any step of set_inrush_current is raised as
\* RuntimeError and logged as an error with the same text; the text is 'Not
\* possible to set the trigger voltage value' when the failing step is the
\* trigger-voltage step of the shaping branch (its second send) and 'Not possible
\* to set the current value' at every other step of either branch.
C16_InrushFailureTextByStep ==
    InrushFailed
       => /\ exc.kind = "RuntimeError"
          /\ Logged(trace, "error", exc.text)
          /\ exc.text = IF lastOp.args[3] # 0 /\ lastOp.env.failAt = 2
                        THEN "Not possible to set the trigger voltage value"
                        ELSE "Not possible to set the current value"

C16_Witness ==
    /\ InrushFailed /\ lastOp.args[3] # 0 /\ lastOp.env.failAt = 2
    /\ exc.text = "Not possible to set the trigger voltage value"
    /\ Logged(trace, "error", "Not possible to set the trigger voltage value")
    /\ ~Logged(trace, "error", "Not possible to set the current value")

\* C17: on a connected session a query sent with send_command returns the
\* device's reply line as it was buffered, line end included; send_command('MODE?')
\* right after send_command('MODE:VOLT') returns "VOLT\n".
C17_RawResponse ==
    /\ (pc = "returned" /\ lastOp.name = "send_command" /\ is_connected
           /\ EndsInQueryMark(lastOp.args[1]))
          => /\ ret = Str(DevReply(dev, lastOp.args[1]))
             /\ ret.s[Len(ret.s)] = "\n"
    /\ Connected
          => send_command(Again(send_command(Ctx(Calm), Cmd("MODE:VOLT"))), Query("MODE")).ret
                = Str(<<"VOLT", "\n">>)

C17_Witness ==
    /\ pc = "returned" /\ lastOp.name = "send_command" /\ is_connected
    /\ lastOp.args[1] = Query("MODE")
    /\ dev.mode = "VOLT"
    /\ ret = Str(<<"VOLT", "\n">>)

\* The record of a frame written.
Wrote(frame) == [ev |-> "write", frame |-> frame]

\* C18: a set_constant_current(v) that succeeds has written, in this order,
\* VOLT:PROT 0, SFUN:EXP:ENAB OFF, CURR:RANG v, CURR v, MODE:CURR and nothing else,
\* and leaves configured_current = v and last_current_range = v.
C18_ConstantCurrentSequence ==
    (pc = "returned" /\ lastOp.name = "set_constant_current" /\ exc.kind = "None")
       => /\ Written(trace) = <<Wrote(CmdV("VOLT:PROT", <<0>>)),
                                Wrote(Cmd("SFUN:EXP:ENAB OFF")),
                                Wrote(CmdV("CURR:RANG", <<lastOp.args[1]>>)),
                                Wrote(CmdV("CURR", <<lastOp.args[1]>>)),
                                Wrote(Cmd("MODE:CURR"))>>
          /\ configured_current = lastOp.args[1]
          /\ last_current_range = lastOp.args[1]

C18_Witness ==
    /\ pc = "returned" /\ lastOp.name = "set_constant_current" /\ exc.kind = "None"
    /\ lastOp.args = <<1234400>>
    /\ Len(Written(trace)) = 5
    /\ dev.rang = 1234400 /\ dev.curr = 1234400 /\ dev.mode = "CURR"
    /\ configured_current = 1234400 /\ last_current_range = 1234400

\* The command texts of the shaping branch, in the order the claim gives.
ShapingOrder ==
    <<<<"CURR:RANG", ";", ":CURR", ";", "MODE:CURR">>, <<"VOLT:PROT">>, <<"SFUN:EXP">>,
      <<"SFUN:EXP:ENAB ON">>, <<"INP ON">>>>

CommandsOf(tr) == [i \in 1..Len(Written(tr)) |-> Written(tr)[i].frame.cmd]

\* How many sends of a call with n sends the transport let through.
SendsDone(env, n) == IF env.failAt = 0 THEN n ELSE env.failAt - 1

\* C19: set_inrush_current(nominal, inrush, t # 0, ..., thr) on a connected session
\* writes range = inrush with current 0 and MODE:CURR, the trigger voltage thr,
\* the shaping function, SFUN:EXP:ENAB ON and last INP ON, in this order, with
\* the one-second wait after the first; a transport failure cuts the sequence
\* short and leaves nothing out of order.  configured_current = nominal is set
\* before the first frame, last_current_range = inrush after the first frame and
\* before the second.
C19_ShapingSequence ==
    [][(Returns /\ lastOp'.name = "set_inrush_current" /\ is_connected
           /\ lastOp'.args[3] # 0)
          => /\ CommandsOf(trace') = SubSeq(ShapingOrder, 1, SendsDone(lastOp'.env, 5))
             /\ exc'.kind = "None" <=> lastOp'.env.failAt = 0
             /\ configured_current' = lastOp'.args[1]
             /\ last_current_range'
                   = IF lastOp'.env.failAt = 1 THEN last_current_range ELSE lastOp'.args[2]
             /\ lastOp'.env.failAt # 1
                   => /\ Written(trace')[1].frame.args = <<lastOp'.args[2], 0>>
                      /\ trace'[4] = [ev |-> "sleep", ms |-> 1000]
             /\ lastOp'.env.failAt \notin {1, 2}
                   => Written(trace')[2].frame.args = <<lastOp'.args[5]>>
             /\ exc'.kind = "None"
                   => /\ trace'[Len(trace') - 1] = Wrote(Cmd("INP ON"))
                      /\ dev'.inp = "ON" /\ dev'.exp_enab = "ON"]_vars

C19_Witness ==
    /\ pc = "returned" /\ lastOp.name = "set_inrush_current" /\ exc.kind = "None"
    /\ lastOp.args[3] # 0 /\ lastOp.args[1] # lastOp.args[2]
    /\ CommandsOf(trace) = ShapingOrder
    /\ configured_current = lastOp.args[1] /\ last_current_range = lastOp.args[2]
    /\ dev.inp = "ON"

\* The shaping-function frames a call wrote.
Shapings(tr) == SelectSeq(tr, LAMBDA e : e.ev = "write" /\ e.frame.cmd = <<"SFUN:EXP">>)

\* C20: a set_inrush_current(nominal, inrush, t, ex, thr) that succeeds with t # 0
\* writes exactly one SFUN:EXP frame: inrush, nominal, t / 3, 0, 0 when ex is
\* true, and inrush, nominal, 0.000001, t, 0.02 when it is false; with t = 0 it
\* writes none.
C20_ShapingFunction ==
    (pc = "returned" /\ lastOp.name = "set_inrush_current" /\ exc.kind = "None")
       => Shapings(trace)
             = IF lastOp.args[3] = 0 THEN <<>>
               ELSE IF lastOp.args[4]
               THEN <<Wrote(Frame(<<"SFUN:EXP">>,
                                  <<lastOp.args[2], lastOp.args[1], lastOp.args[3] \div 3, 0, 0>>))>>
               ELSE <<Wrote(Frame(<<"SFUN:EXP">>,
                                  <<lastOp.args[2], lastOp.args[1], 1,
                                    lastOp.args[3], Unit \div 50>>))>>

C20_Witness ==
    /\ pc = "returned" /\ lastOp.name = "set_inrush_current" /\ exc.kind = "None"
    /\ lastOp.args[3] = 300000 /\ lastOp.args[4]
    /\ Len(Shapings(trace)) = 1
    /\ Shapings(trace)[1].frame.args[3] = 100000

\* r is v rounded to three decimal places.
Rounds3(r, v) == r % (2 * HalfMilli) = 0 /\ r - v \in (0 - HalfMilli)..HalfMilli

PulseCall == pc = "returned" /\ lastOp.name = "perform_pulse" /\ exc.kind = "None"

\* C21 as stated: a successful perform_pulse(current, duration) writes CURR:RANG
\* first, then SFUN:EXP:ENAB OFF, then LIST:CURR current,configured_current, the
\* zero ramp times, the dwell times duration,0.001, LIST:COUN 1, INP ON and
\* LIST:STAT ON.
C21_PulseOrderAsListed ==
    PulseCall
       => /\ CommandsOf(trace)
                = <<<<"CURR:RANG">>, <<"SFUN:EXP:ENAB OFF">>, <<"LIST:CURR">>,
                    <<"LIST:CURR:RTIM">>, <<"LIST:CURR:DWEL">>, <<"LIST:COUN">>, <<"INP ON">>,
                    <<"LIST:STAT ON">>>>
          /\ Written(trace)[3].frame.args = <<lastOp.args[1], configured_current>>
          /\ Written(trace)[5].frame.args = <<lastOp.args[2], Unit \div 1000>>

\* The command texts of perform_pulse, in the order they are written.
PulseOrder ==
    <<<<"SFUN:EXP:ENAB OFF">>, <<"CURR:RANG">>, <<"LIST:CURR">>, <<"LIST:CURR:RTIM">>,
      <<"LIST:CURR:DWEL">>, <<"LIST:COUN">>, <<"INP ON">>, <<"LIST:STAT ON">>>>

PulseArgsOk(w, n, current, duration, before, range) ==
    /\ n >= 2 => w[2].frame.args = <<range>>
    /\ n >= 3 => w[3].frame.args[1] = current /\ Rounds3(w[3].frame.args[2], before)
    /\ n >= 4 => w[4].frame.args = <<0, 0>>
    /\ n >= 5 => Rounds3(w[5].frame.args[1], duration) /\ w[5].frame.args[2] = 2 * HalfMilli
    /\ n >= 6 => w[6].frame.args = <<1>>

\* C21: perform_pulse(current, duration) on a connected session first assigns
\* last_current_range = max(current, configured_current rounded to 3 decimals),
\* before any frame, then writes SFUN:EXP:ENAB OFF, CURR:RANG with that range,
\* LIST:CURR current and the rounded configured_current, LIST:CURR:RTIM 0,0,
\* LIST:CURR:DWEL with the duration rounded to 3 decimals and 0.001, LIST:COUN 1,
\* INP ON and LIST:STAT ON, in this order; a transport failure cuts the sequence
\* short.
C21_PulseSequence ==
    [][(Returns /\ lastOp'.name = "perform_pulse" /\ is_connected)
          => /\ CommandsOf(trace') = SubSeq(PulseOrder, 1, SendsDone(lastOp'.env, 8))
             /\ exc'.kind = "None" <=> lastOp'.env.failAt = 0
             /\ last_current_range' >= lastOp'.args[1]
             /\ \/ last_current_range' = lastOp'.args[1]
                      /\ configured_current - lastOp'.args[1] <= HalfMilli
                \/ Rounds3(last_current_range', configured_current)
             /\ PulseArgsOk(Written(trace'), SendsDone(lastOp'.env, 8), lastOp'.args[1],
                            lastOp'.args[2], configured_current, last_current_range')]_vars

C21_Witness ==
    /\ PulseCall /\ is_connected
    /\ CommandsOf(trace) = PulseOrder
    /\ lastOp.args[2] = 12300
    /\ Written(trace)[5].frame.args = <<12000, 1000>>
    /\ configured_current = 1234400
    /\ Written(trace)[3].frame.args = <<lastOp.args[1], 1234000>>

\* The places at which a call wrote the command text cmd.
Places(tr, cmd) == {i \in 1..Len(Written(tr)) : Written(tr)[i].frame.cmd = cmd}

Precedes(tr, first, second) ==
    /\ Places(tr, first) # {} /\ Places(tr, second) # {}
    /\ \A i \in Places(tr, first), j \in Places(tr, second) : i < j

\* C22: a successful perform_pulse writes CURR:RANG before LIST:CURR and INP ON
\* before LIST:STAT ON, and LIST:STAT ON is its last frame; the range written is
\* at least both steps of the list, and the device has that range and its input
\* ON when the list is started.
C22_ListStartsLast ==
    PulseCall
       => /\ Precedes(trace, <<"CURR:RANG">>, <<"LIST:CURR">>)
          /\ Precedes(trace, <<"INP ON">>, <<"LIST:STAT ON">>)
          /\ Places(trace, <<"LIST:STAT ON">>) = {Len(Written(trace))}
          /\ \A i \in Places(trace, <<"CURR:RANG">>), j \in Places(trace, <<"LIST:CURR">>) :
                /\ Written(trace)[i].frame.args[1] >= Written(trace)[j].frame.args[1]
                /\ Written(trace)[i].frame.args[1] >= Written(trace)[j].frame.args[2]
                /\ dev.rang = Written(trace)[i].frame.args[1]
          /\ dev.inp = "ON"

C22_Witness ==
    /\ PulseCall
    /\ Places(trace, <<"LIST:STAT ON">>) = {8}
    /\ Places(trace, <<"INP ON">>) = {7}
    /\ Places(trace, <<"CURR:RANG">>) = {2}
    /\ dev.rang = 1234000 /\ lastOp.args[1] = Unit

\* The second step of the current list a perform_pulse programmed.
ReturnCurrent(tr) == Written(tr)[3].frame.args[2]

Pulsed(x, current, duration) == After(x, perform_pulse(x, current, duration))

\* C23 as stated: perform_pulse leaves configured_current as it was and programs
\* it, as it is, as the second step of the current list.
C23_ReturnsToConfigured ==
    [][(Returns /\ lastOp'.name = "perform_pulse" /\ is_connected)
          => /\ configured_current' = configured_current
             /\ ReturnCurrent(trace') = configured_current]_vars

\* C23: perform_pulse on a connected session leaves configured_current as it
\* was; the second step of the current list is the configured_current in force
\* before the call rounded to three decimal places (the value itself when it has
\* no more decimals), and a second perform_pulse right after it, whatever its
\* peak and duration, programs the same second step.
C23_ReturnsToRoundedConfigured ==
    [][(Returns /\ lastOp'.name = "perform_pulse" /\ is_connected)
          => /\ configured_current' = configured_current
             /\ Rounds3(ReturnCurrent(trace'), configured_current)
             /\ configured_current % (2 * HalfMilli) = 0
                   => ReturnCurrent(trace') = configured_current
             /\ \A c \in Amps, d \in Durations :
                   ReturnCurrent(Pulsed(Pulsed(Ctx(Calm), lastOp'.args[1], lastOp'.args[2]),
                                        c, d).trace)
                      = ReturnCurrent(trace')]_vars

C23_Witness ==
    /\ PulseCall
    /\ configured_current = 1234400
    /\ lastOp.args = <<Unit, 12300>>
    /\ Written(trace)[3].frame = CmdV("LIST:CURR", <<Unit, 1234000>>)

\* The session fields a call left as they were.
FieldsKept ==
    UNCHANGED <<port_name, is_connected, pel_com, configured_current, last_current_range>>

\* C24: set_input_on on a connected session writes CURR:RANG with the tracked
\* last_current_range and then INP ON, nothing else, and changes no session
\* field; a transport failure cuts the two frames short and changes no field
\* either.
C24_InputOnSequence ==
    [][(Returns /\ lastOp'.name = "set_input_on" /\ is_connected)
          => /\ Written(trace')
                   = SubSeq(<<Wrote(CmdV("CURR:RANG", <<last_current_range>>)),
                              Wrote(Cmd("INP ON"))>>,
                            1, SendsDone(lastOp'.env, 2))
             /\ exc'.kind = "None" <=> lastOp'.env.failAt = 0
             /\ FieldsKept]_vars

C24_Witness ==
    /\ pc = "returned" /\ lastOp.name = "set_input_on" /\ exc.kind = "None"
    /\ Written(trace) = <<Wrote(CmdV("CURR:RANG", <<1234400>>)), Wrote(Cmd("INP ON"))>>
    /\ dev.rang = 1234400 /\ dev.inp = "ON"

\* C25: set_input_off on a connected session writes CURR:RANG 0.01 and then
\* INP OFF and leaves last_current_range and configured_current as they were;
\* a set_input_on right after it writes CURR:RANG with the range tracked before
\* the input was turned off, and the device has that range again.
C25_InputOffKeepsRange ==
    [][(Returns /\ lastOp'.name = "set_input_off" /\ is_connected)
          => /\ Written(trace')
                   = <<Wrote(CmdV("CURR:RANG", <<Unit \div 100>>)), Wrote(Cmd("INP OFF"))>>
             /\ dev'.rang = Unit \div 100 /\ dev'.inp = "OFF"
             /\ last_current_range' = last_current_range
             /\ configured_current' = configured_current
             /\ Written(TurnedOn(TurnedOff(Ctx(Calm))).trace)
                   = <<Wrote(CmdV("CURR:RANG", <<last_current_range>>)), Wrote(Cmd("INP ON"))>>
             /\ TurnedOn(TurnedOff(Ctx(Calm))).dev.rang = last_current_range]_vars

C25_Witness ==
    /\ pc = "returned" /\ lastOp.name = "set_input_off" /\ exc.kind = "None"
    /\ dev.rang = Unit \div 100
    /\ last_current_range = 1234000 /\ configured_current = 1234400

\* C26: set_resistance(v) on a connected session writes SFUN:EXP:ENAB OFF, then
\* RES v, then MODE:RES, nothing else, and changes neither configured_current
\* nor last_current_range (nor any other session field).
C26_ResistanceSequence ==
    [][(Returns /\ lastOp'.name = "set_resistance" /\ is_connected)
          => /\ Written(trace')
                   = <<Wrote(Cmd("SFUN:EXP:ENAB OFF")), Wrote(CmdV("RES", <<lastOp'.args[1]>>)),
                       Wrote(Cmd("MODE:RES"))>>
             /\ exc'.kind = "None"
             /\ FieldsKept]_vars

C26_Witness ==
    /\ pc = "returned" /\ lastOp.name = "set_resistance" /\ exc.kind = "None"
    /\ lastOp.args = <<12500000>>
    /\ dev.res = 12500000 /\ dev.mode = "RES"
    /\ configured_current = 1234400 /\ last_current_range = 1234400

\* The device answered 1: the text read is the integer 1, white space aside.
AnswersOne(t) == ParseInt(t).ok /\ ParseInt(t).val = 1

\* C27: is_input_on_off on a connected session writes the query INP? and
\* returns 'ON' when the text it read is 1 and 'OFF' for every other text; no
\* text read makes it fail.
C27_StatusWhateverAnswer ==
    (pc = "returned" /\ lastOp.name = "is_input_on_off" /\ is_connected)
       => /\ Written(trace) = <<Wrote(Query("INP"))>>
          /\ Len(Reads(trace)) = 1
          /\ exc.kind = "None"
          /\ ret = Str(IF AnswersOne(Reads(trace)[1].data) THEN "ON" ELSE "OFF")

\* What the first k statements of close_connection make of the session.
CloseSteps(k) == Exec(Ctx(Calm), SubSeq(close_connection(Ctx(Calm)), 1, k))

Closes(tr) == SelectSeq(tr, LAMBDA e : e.ev = "close")

\* C28: close_connection on a connected session first writes GTL, with the port
\* still open and the session still connected, then closes the port, the session
\* still marked connected, and then clears is_connected; once is_connected is
\* FALSE no call writes a frame, so that GTL is the last frame of the session.
C28_GtlCloseThenFlag ==
    /\ Connected
          => /\ Written(CloseSteps(1).trace) = <<Wrote(Cmd("GTL"))>>
             /\ Closes(CloseSteps(1).trace) = <<>>
             /\ CloseSteps(1).pel_com = "open" /\ CloseSteps(1).is_connected
             /\ Len(Closes(CloseSteps(2).trace)) = 1
             /\ CloseSteps(2).pel_com = "closed" /\ CloseSteps(2).is_connected
             /\ ~CloseSteps(3).is_connected
             /\ Written(CloseSteps(4).trace) = <<Wrote(Cmd("GTL"))>>
             /\ CloseSteps(4).pel_com = "closed" /\ ~CloseSteps(4).is_connected
    /\ (pc = "returned" /\ phase = "live" /\ ~is_connected)
          => \/ Written(trace) = <<>>
             \/ /\ lastOp.name = "close_connection"
                /\ Written(trace) = <<Wrote(Cmd("GTL"))>>
                /\ trace[Len(trace) - 1].ev = "close"

C28_Witness ==
    /\ pc = "returned" /\ lastOp.name = "close_connection" /\ exc.kind = "None"
    /\ Written(trace) = <<Wrote(Cmd("GTL"))>>
    /\ Len(Closes(trace)) = 1
    /\ pel_com = "closed" /\ ~is_connected
    /\ dev.inp = "ON"

Settle == [ev |-> "sleep", ms |-> 200]

\* The flushes among the first i events of a call.
FlushesUpTo(tr, i) == Flushes(SubSeq(tr, 1, i))

\* C29: in every call, each send is a flush of the output buffer, then one write
\* of the frame, then the settle delay of 200 ms, then, for a query and only for
\* a query, one read of the input buffer: every write comes right after a flush
\* and right before the settle delay, every read right after the settle delay of
\* a query's write, every query written is read, and a flush with no write after
\* it is the send at which the transport failed.
C29_SendSteps ==
    pc = "returned"
       => \A i \in 1..Len(trace) :
             /\ trace[i].ev = "write"
                   => /\ i > 1 /\ trace[i - 1].ev = "flush"
                      /\ i < Len(trace) /\ trace[i + 1] = Settle
                      /\ HasQueryMark(trace[i].frame)
                            => i + 2 <= Len(trace) /\ trace[i + 2].ev = "read"
             /\ trace[i].ev = "read"
                   => /\ i > 2 /\ trace[i - 1] = Settle
                      /\ trace[i - 2].ev = "write" /\ HasQueryMark(trace[i - 2].frame)
             /\ trace[i].ev = "flush"
                   => \/ i < Len(trace) /\ trace[i + 1].ev = "write"
                      \/ lastOp.env.failAt = FlushesUpTo(trace, i)

C29_Witness ==
    /\ pc = "returned" /\ lastOp.name = "send_command" /\ is_connected
    /\ Len(trace) = 4
    /\ trace[1].ev = "flush"
    /\ trace[2] = Wrote(Query("*IDN"))
    /\ trace[3] = Settle
    /\ trace[4] = [ev |-> "read", data |-> DevReplyTo(dev, "*IDN")]

\* The device after it took the frames w, in order.
RECURSIVE Programmed(_, _)
Programmed(d, w) == IF w = <<>> THEN d ELSE Programmed(DevApply(d, Head(w).frame), Tail(w))

\* What the call just made writes from the same state when the transport holds.
Unfailed(name, args) ==
    IF name = "set_constant_current"
    THEN Written(Exec(Ctx(Calm), set_constant_current(args[1])).trace)
    ELSE Written(Exec(Ctx(Calm), perform_pulse(Ctx(Calm), args[1], args[2])).trace)

\* C30: when the transport fails at the k-th send of a call on a connected
\* session, the call has begun k sends and no more, has written the k - 1 frames
\* before it and not the k-th, and raises; the device is what those k - 1 frames
\* made of it.  For set_constant_current and perform_pulse the frames written are
\* the first k - 1 of those the call writes when the transport holds.
C30_NoRetry ==
    [][(Returns /\ is_connected /\ lastOp'.env.failAt \in 1..Flushes(trace'))
          => /\ Flushes(trace') = lastOp'.env.failAt
             /\ Len(Written(trace')) = lastOp'.env.failAt - 1
             /\ trace'[Len(trace')].ev \in {"flush", "log"}
             /\ exc'.kind \in {"RuntimeError", "SerialException"}
             /\ dev' = Programmed(dev, Written(trace'))
             /\ lastOp'.name \in {"set_constant_current", "perform_pulse"}
                   => Written(trace')
                         = SubSeq(Unfailed(lastOp'.name, lastOp'.args), 1, lastOp'.env.failAt - 1)]_vars

C30_Witness ==
    /\ pc = "returned" /\ lastOp.name = "perform_pulse" /\ lastOp.env.failAt = 4
    /\ exc.kind = "RuntimeError"
    /\ Len(Written(trace)) = 3
    /\ Written(trace)[3].frame = CmdV("LIST:CURR", <<1234400, Unit>>)
    /\ dev.rang = 1234400 /\ dev.inp = "OFF"

ReadOps == NumericReads \cup {"read_identification", "is_input_on_off"}

\* The query each read operation sends, and its body.
QueryOf(name) ==
    CASE name = "read_identification"      -> Query("*IDN")
      [] name = "is_input_on_off"          -> Query("INP")
      [] name = "measure_current"          -> Query("MEAS:CURR")
      [] name = "measure_voltage"          -> Query("MEAS:VOLT")
      [] name = "read_current_set"         -> Query("CURR")
      [] name = "read_resistance_set"      -> Query("RES")
      [] name = "read_trigger_voltage_set" -> Query("VOLT:PROT")

ReadBody(name) ==
    CASE name = "read_identification"      -> read_identification
      [] name = "is_input_on_off"          -> is_input_on_off
      [] name = "measure_current"          -> measure_current
      [] name = "measure_voltage"          -> measure_voltage
      [] name = "read_current_set"         -> read_current_set
      [] name = "read_resistance_set"      -> read_resistance_set
      [] name = "read_trigger_voltage_set" -> read_trigger_voltage_set

\* The read operation name made from this state when the reply arrives as fault
\* makes it.
ReadUnder(name, fault) == Exec(Ctx(Env(0, "write", fault, FALSE)), ReadBody(name))

SameFields(x) ==
    /\ x.port_name = port_name /\ x.is_connected = is_connected /\ x.pel_com = pel_com
    /\ x.configured_current = configured_current
    /\ x.last_current_range = last_current_range

\* C31 as stated: every read operation writes exactly one frame, its query, and
\* changes no session field, whether it succeeds or fails.
C31_ReadsWriteOneQuery ==
    [][(Returns /\ lastOp'.name \in ReadOps)
          => /\ Written(trace') = <<Wrote(QueryOf(lastOp'.name))>>
             /\ FieldsKept]_vars

\* C31: every read operation changes no session field, whether it succeeds or
\* fails, and writes at most one frame, its query: exactly that frame on a
\* connected session whose transport takes it, whatever the reply (also a reply
\* that cannot be decoded), and no frame when the session is closed or the
\* transport raises at the write.
C31_ReadsKeepFields ==
    [][(Returns /\ lastOp'.name \in ReadOps)
          => /\ FieldsKept
             /\ Written(trace')
                   = IF is_connected /\ lastOp'.env.failAt = 0
                     THEN <<Wrote(QueryOf(lastOp'.name))>>
                     ELSE <<>>
             /\ ~(is_connected /\ lastOp'.env.failAt = 0) => exc'.kind # "None"
             /\ is_connected
                   => \A f \in Faults :
                         /\ Written(ReadUnder(lastOp'.name, f).trace)
                               = <<Wrote(QueryOf(lastOp'.name))>>
                         /\ SameFields(ReadUnder(lastOp'.name, f))]_vars

C31_Witness ==
    /\ pc = "returned" /\ lastOp.name = "read_current_set" /\ lastOp.env.failAt = 1
    /\ is_connected /\ exc.kind = "SerialException"
    /\ Written(trace) = <<>>
    /\ configured_current = 1234400 /\ last_current_range = Unit

\* Whose statement wrote the i-th event of the line's record.
RECURSIVE Owner(_, _)
Owner(tr, i) == IF tr[i].ev = "turn" THEN tr[i].by ELSE Owner(tr, i - 1)

Ranges(tr) == SelectSeq(tr, LAMBDA e : e.ev = "write" /\ e.frame.cmd = <<"CURR:RANG">>)

\* On the line, a frame of another caller stands between the CURR:RANG and the
\* INP ON of one caller's set_input_on.
Separated(tr) ==
    \E i, j, k \in 1..Len(tr) :
       /\ i < j /\ j < k
       /\ tr[i] = Wrote(CmdV("CURR:RANG", <<last_current_range>>))
       /\ tr[j].ev = "write" /\ Owner(tr, j) # Owner(tr, i)
       /\ tr[k] = Wrote(Cmd("INP ON")) /\ Owner(tr, k) = Owner(tr, i)

\* C32: nothing keeps a second caller out: while one caller is between two
\* statements of a method, the other may enter either method and take its own
\* statements, and the caller inside may go on.  The device takes the frames in
\* the order of the line: when INP ON is the last frame written the input is ON
\* with the range of the last CURR:RANG before it, whoever wrote that.
C32_NoGuard ==
    /\ \A c \in Callers, d \in Callers :
          (phase = "live" /\ pc = "idle" /\ c # d /\ running[c] # Resting)
             => /\ ENABLED Step(c)
                /\ running[d] # Resting => ENABLED Step(d)
                /\ (running[d] = Resting /\ Entered(trace) < MaxCalls)
                      => \A name \in ConcurrentOps : ENABLED Enter(d, name)
    /\ (Written(trace) # <<>> /\ Written(trace)[Len(Written(trace))] = Wrote(Cmd("INP ON")))
          => /\ dev.inp = "ON"
             /\ Ranges(trace) # <<>>
                   => dev.rang = Ranges(trace)[Len(Ranges(trace))].frame.args[1]

C32_Witness ==
    /\ Separated(trace)
    /\ Written(trace) = <<Wrote(CmdV("CURR:RANG", <<Unit>>)),
                          Wrote(CmdV("CURR:RANG", <<Unit \div 100>>)),
                          Wrote(Cmd("INP ON"))>>
    /\ dev.inp = "ON" /\ dev.rang = Unit \div 100
    /\ last_current_range = Unit

\* C33: a numeric read on a connected session whose response is empty raises
\* RuntimeError with the quantity's message, logs it as an error and returns
\* nothing; no other kind of exception escapes.
C33_EmptyRaisesDomainError ==
    (pc = "returned" /\ is_connected /\ lastOp.name \in NumericReads
        /\ Reads(trace) # <<>> /\ Reads(trace)[1].data = <<>>)
       => /\ exc.kind = "RuntimeError"
          /\ exc.text = ReadErrorText(lastOp.name)
          /\ Logged(trace, "error", exc.text)
          /\ ret = None

CurrentSetters == {"set_constant_current", "set_inrush_current", "perform_pulse"}

\* C34: set_constant_current, set_inrush_current and perform_pulse called on a
\* closed session raise the not-connected RuntimeError, write nothing, and leave
\* configured_current and last_current_range as they were.
C34_ClosedSessionKeepsFields ==
    [][(Returns /\ phase = "live" /\ ~is_connected /\ lastOp'.name \in CurrentSetters)
          => /\ exc'.kind = "RuntimeError" /\ exc'.text = ClosedText
             /\ NoTransport(trace')
             /\ configured_current' = configured_current
             /\ last_current_range' = last_current_range]_vars

\* The frames that program the current range, alone or with other settings.
IsRange(e) == e.frame.cmd[1] = "CURR:RANG"

\* The range most recently written among the first n frames w, 0 if none.
RECURSIVE RangeBefore(_, _)
RangeBefore(w, n) ==
    IF n = 0 THEN 0
    ELSE IF IsRange(w[n]) THEN w[n].frame.args[1]
    ELSE RangeBefore(w, n - 1)

\* C35: whenever a call writes INP ON, whether or not the call then completes, a
\* current range was written earlier in the same call and the most recent one
\* equals last_current_range, which the call does not change afterwards; this
\* holds after every sequence of earlier calls.
C35_RangeBeforeInputOn ==
    pc = "returned"
       => \A i \in 1..Len(Written(trace)) :
             Written(trace)[i] = Wrote(Cmd("INP ON"))
                => /\ lastOp.name \in {"set_input_on", "set_inrush_current", "perform_pulse"}
                   /\ RangeBefore(Written(trace), i - 1) = last_current_range
                   /\ last_current_range > 0

C35_Witness ==
    /\ pc = "returned" /\ lastOp.name = "perform_pulse" /\ lastOp.env.failAt = 8
    /\ Len(Written(trace)) = 7 /\ Written(trace)[7] = Wrote(Cmd("INP ON"))
    /\ last_current_range = 1234000 /\ configured_current = 1234400
    /\ RangeBefore(Written(trace), 6) = 1234000

\* The reply of the device to the query of the read operation name.
OwnReply(name) == DevReplyTo(dev, QueryOf(name).cmd[1])

\* C36: whatever the latency of the device, the text a read operation reads on
\* a connected session holds bytes of the reply to its own query only: it is that
\* reply, or nothing when the reply has not arrived yet.
C36_OnlyOwnReply ==
    (pc = "returned" /\ is_connected /\ lastOp.name \in ReadOps /\ Reads(trace) # <<>>)
       => Reads(trace)[1].data \in {<<>>, OwnReply(lastOp.name)}

\* C37: close_connection called on a connected session leaves the port closed
\* and is_connected FALSE in every outcome, also when the write of GTL raises.
C37_ClosedInEveryOutcome ==
    [][(Returns /\ lastOp'.name = "close_connection" /\ is_connected)
          => pel_com' = "closed" /\ ~is_connected']_vars

\* The range the call wrote last, 0 if it wrote none.
RangeWritten(tr) == RangeBefore(Written(tr), Len(Written(tr)))

Thresholds(tr) ==
    SelectSeq(Written(tr), LAMBDA e : e.frame.cmd = <<"VOLT:PROT">>)

ConstantCurrentCall(op) ==
    \/ op.name = "set_constant_current"
    \/ op.name = "set_inrush_current" /\ op.args[3] = 0

\* C39: set_constant_current on a connected session writes VOLT:PROT 0 as its
\* first frame and no other threshold, and so does set_inrush_current with
\* inrush_time = 0 whatever its threshold argument: the threshold of the device
\* is 0 afterwards whatever set_trigger_voltage had made it.
C39_ThresholdReset ==
    [][(Returns /\ is_connected /\ ConstantCurrentCall(lastOp'))
          => /\ exc'.kind = "None"
             /\ Written(trace')[1] = Wrote(CmdV("VOLT:PROT", <<0>>))
             /\ Thresholds(trace') = <<Wrote(CmdV("VOLT:PROT", <<0>>))>>
             /\ dev'.prot = 0]_vars

C39_Witness ==
    /\ pc = "returned" /\ lastOp.name = "set_inrush_current" /\ exc.kind = "None"
    /\ lastOp.args[3] = 0 /\ lastOp.args[5] = 6 * Unit
    /\ Thresholds(trace) = <<Wrote(CmdV("VOLT:PROT", <<0>>))>>
    /\ dev.prot = 0

\* The SFUN:EXP:ENAB frames a call wrote, in order.
Enables(tr) ==
    SelectSeq(Written(tr), LAMBDA e : e.frame.cmd \in {<<"SFUN:EXP:ENAB ON">>, <<"SFUN:EXP:ENAB OFF">>})

ShapingOff == {"set_resistance", "set_constant_current", "perform_pulse"}

\* A successful set_resistance, set_constant_current or perform_pulse wrote
\* SFUN:EXP:ENAB OFF and no SFUN:EXP:ENAB ON, and the shaping function is disabled.
DisabledAfter ==
    (Returns /\ lastOp'.name \in ShapingOff /\ exc'.kind = "None")
       => /\ Enables(trace') = <<Wrote(Cmd("SFUN:EXP:ENAB OFF"))>>
          /\ dev'.exp_enab = "OFF"

\* C40 as stated: a successful set_resistance, set_constant_current or
\* perform_pulse leaves SFUN:EXP:ENAB OFF as the last such frame, and the shaping
\* function becomes enabled only by a successful set_inrush_current with
\* inrush_time # 0.
C40_EnabledOnlyBySuccessfulInrush ==
    [][/\ DisabledAfter
       /\ (Returns /\ dev.exp_enab = "OFF" /\ dev'.exp_enab = "ON")
             => /\ lastOp'.name = "set_inrush_current" /\ lastOp'.args[3] # 0
                /\ exc'.kind = "None"]_vars

\* C40: a successful set_resistance, set_constant_current or perform_pulse
\* leaves SFUN:EXP:ENAB OFF as the last such frame.  The shaping function becomes
\* enabled only by a set_inrush_current with inrush_time # 0 that wrote
\* SFUN:EXP:ENAB ON: one that succeeded, or one whose last frame, INP ON, failed.
\* It becomes disabled again only by a call that wrote SFUN:EXP:ENAB OFF
\* (set_resistance, set_constant_current, also inside set_inrush_current with
\* inrush_time = 0, perform_pulse, whether or not they then complete) or by
\* reset.
C40_EnabledOnlyByInrush ==
    [][/\ DisabledAfter
       /\ (Returns /\ dev.exp_enab = "OFF" /\ dev'.exp_enab = "ON")
             => /\ lastOp'.name = "set_inrush_current" /\ lastOp'.args[3] # 0
                /\ Enables(trace') = <<Wrote(Cmd("SFUN:EXP:ENAB ON"))>>
                /\ lastOp'.env.failAt \in {0, 5}
                /\ exc'.kind = "None" <=> lastOp'.env.failAt = 0
       /\ (Returns /\ dev.exp_enab = "ON" /\ dev'.exp_enab = "OFF")
             => \/ /\ lastOp'.name \in ShapingOff \/ ConstantCurrentCall(lastOp')
                   /\ Enables(trace') = <<Wrote(Cmd("SFUN:EXP:ENAB OFF"))>>
                \/ /\ lastOp'.name = "reset"
                   /\ Written(trace') = <<Wrote(Cmd("*RST"))>>]_vars

C40_Witness ==
    /\ pc = "returned" /\ lastOp.name = "set_inrush_current" /\ lastOp.env.failAt = 5
    /\ exc.kind = "RuntimeError"
    /\ Enables(trace) = <<Wrote(Cmd("SFUN:EXP:ENAB ON"))>>
    /\ dev.exp_enab = "ON" /\ dev.inp = "OFF"

====
